---- MODULE Spec2Model ----
(***************************************************************************)
(* Query-construction and result-reconciliation layer of the analytics     *)
(* dashboard: interval resolution (intervalToSql, getDateTimeRange,        *)
(* getPreviousInterval), bucket generation (generateEmptyRowsOverInterval),*)
(* time-series reconciliation (getViewsGroupedByInterval), the dimension   *)
(* breakdowns (getAllCountsByColumn, getVisitorCountByColumn and the       *)
(* methods built on them) and the filters (getFiltersFromSearchParams,     *)
(* filtersToSql).                                                          *)
(*                                                                         *)
(* Instants are JavaScript Dates: a number of milliseconds.  They are kept *)
(* as records [sec, ms] (getTime() = sec * 1000 + ms) so that ranges of    *)
(* 90 days stay inside TLC's integers while the millisecond arithmetic of  *)
(* the code (endOf("day"), add(2, "ms"), format to second precision) is    *)
(* kept exact.  Second 0 is 2023-09-01T00:00:00Z.                          *)
(***************************************************************************)
EXTENDS Integers, Sequences, FiniteSets, TLC

\* pc            position in the running call: idle, walk (the generator's
\*               loop), query (request sent), fetch (the two requests of
\*               getCounts or getEngagementMetrics sent), done (result
\*               built), failed (the promise is rejected)
\* op            the running call: loader (time-series loader), direct
\*               (getViewsGroupedByInterval with the caller's dates),
\*               counts (getCounts), allCounts (getAllCountsByColumn),
\*               countsSorted (getCountByPath, getCountByReferrer),
\*               visitorCounts (getVisitorCountByColumn), visitorBreakdown
\*               (getCountByCountry, getCountByBrowser, getCountByDevice),
\*               urlFilters and filters (a filter compilation), none
\* clock         the first reading of the clock in the call
\* interval, tz  the call's interval token and time zone
\* intervalType  the bucket granularity, DAY or HOUR
\* startArg      the start of the range as passed in
\* startDateTime the generator's cursor
\* endDateTime   the end of the range
\* initialRows   the keys of the generator's object, in insertion order
\* data          the rows of the backend's response
\* sortedRows    the time series: <<key, views, visitors, visits>> entries
\* counts        getCounts: the token, its previous token, the interval
\*               expressions of both queries and the backend's clock
\* requests      the HTTP requests the call has sent
\* responseOk    response.ok of the response to a call's one query: none
\*               (no response yet), true, false
\* arrival       getCounts and getEngagementMetrics: the queries whose
\*               response has arrived, in the order of arrival
\* responses     the response of the current and of the previous query
\* metrics       the object getCounts or getEngagementMetrics returns
\* currentVal, previousVal  the two values of a metric a card compares
\* change        the change the card shows: its percentage text and its
\*               direction
\* searchParams  the parameters of the request's URL, <<name, value>> pairs
\* filters       the filter object: <<key, value>> pairs in insertion order
\* filterStr     the text filtersToSql compiles, as a sequence: its fixed
\*               pieces and the characters of the values
\* column        the dimension of a breakdown call
\* held          the rows the breakdown query selects, in the backend's
\*               order (count descending), before its LIMIT
\* page, limit   the page asked for and the page size
\* queryLimit    the LIMIT of the query sent
\* pageData      the slice of the response that is the page
\* allCounts     getAllCountsByColumn's object: its keys in insertion order
\*               and the record of each
\* result        the breakdown handed back: <<key, visitors, views>> or
\*               <<key, visitors>> entries
\* hasMore       PaginatedTableCard's hasMore, once it has rendered the page
\* url           the search parameters of the address the dashboard route
\*               is at, as <<name, value>> pairs
\* redirectUrl   the search parameters of the address the loader redirects
\*               to
\* sitesByHits   the promise of the loader's getSitesOrderedByHits call
\* loaderData    useLoaderData(): what the last loader that returned data
\*               returned
\* redirects     redirects followed since the navigation began
\* handler       the handler of the Dashboard component called last, with its
\*               arguments, the parameters it found (prev) and the interval
\*               of the loader's data it was rendered with (selected)
\* clicks        handlers called since the dashboard was opened
VARIABLES pc, op, clock, interval, tz, intervalType, startArg, startDateTime,
          endDateTime, initialRows, data, sortedRows, counts,
          column, held, page, limit, queryLimit, pageData, allCounts, result,
          searchParams, filters, filterStr,
          currentVal, previousVal, change, hasMore,
          requests, responseOk, arrival, responses, metrics,
          url, redirectUrl, sitesByHits, loaderData, redirects, handler,
          clicks

seriesVars == <<clock, interval, tz, intervalType, startArg, startDateTime,
                endDateTime, initialRows, data, sortedRows, counts>>

dimVars == <<column, held, page, limit, queryLimit, pageData, allCounts,
             result>>

filterVars == <<searchParams, filters, filterStr>>

viewVars == <<currentVal, previousVal, change, hasMore>>

fetchVars == <<requests, responseOk, arrival, responses, metrics>>

navVars == <<url, redirectUrl, sitesByHits, loaderData, redirects, handler,
            clicks>>

vars == <<pc, op, seriesVars, dimVars, filterVars, viewVars, fetchVars,
          navVars>>

-----------------------------------------------------------------------------
(* Units of time                                                           *)

MsPerSec == 1000
SecPerMin == 60
SecPerHour == 3600
SecPerDay == 86400

T(s, m) == [sec |-> s, ms |-> m]

\* an Invalid Date: getTime() is NaN, and so is every instant computed
\* from it
InvalidDate == T(-1, -1)

\* Date.getTime() comparison a < b; a comparison with NaN is false
Lt(a, b) ==
    /\ a # InvalidDate
    /\ b # InvalidDate
    /\ (a.sec < b.sec \/ (a.sec = b.sec /\ a.ms < b.ms))

Le(a, b) == a = b \/ Lt(a, b)

\* dayjs .add(n, "ms") / .subtract(n, "ms")
AddMs(t, n) ==
    LET total == t.ms + n
    IN  T(t.sec + (total \div MsPerSec), total % MsPerSec)

\* dayjs .add(n, "hour") and, on an instance in UTC mode, .add(n, "day")
AddSec(t, n) == T(t.sec + n, t.ms)

-----------------------------------------------------------------------------
(* Time zones (dayjs timezone plugin).  Three zones of the IANA database:  *)
(* a zone with no offset, one with a half-hour offset and no daylight      *)
(* saving, and one with daylight saving whose transitions fall in the      *)
(* modelled year: America/New_York leaves daylight time on 2023-11-05 and  *)
(* 2024-11-03 at 06:00Z and enters it on 2024-03-10 at 07:00Z.             *)

Zones == {"Etc/UTC", "Asia/Kolkata", "America/New_York"}

NYFallBack2023 == 65 * SecPerDay + 6 * SecPerHour
NYSpringForward2024 == 191 * SecPerDay + 7 * SecPerHour
NYFallBack2024 == 429 * SecPerDay + 6 * SecPerHour

\* UTC offset, in seconds, of zone z at the instant s (seconds)
Offset(z, s) ==
    CASE z = "Etc/UTC" -> 0
      [] z = "Asia/Kolkata" -> 5 * SecPerHour + 30 * SecPerMin
      [] z = "America/New_York" ->
            IF s < NYFallBack2023 THEN -4 * SecPerHour
            ELSE IF s < NYSpringForward2024 THEN -5 * SecPerHour
            ELSE IF s < NYFallBack2024 THEN -4 * SecPerHour
            ELSE -5 * SecPerHour

\* the instant whose wall clock in zone z reads w (seconds), given a nearby
\* instant: dayjs.tz(wall, z) with keepLocalTime
FromWall(z, w, near) ==
    LET guess == w - Offset(z, near)
    IN  IF Offset(z, guess) = Offset(z, near) THEN guess
        ELSE w - Offset(z, guess)

\* dayjs(t).tz(z).startOf("day"): the local midnight of the local day of t
StartOfDay(z, t) ==
    LET wall == t.sec + Offset(z, t.sec)
        midnight == (wall \div SecPerDay) * SecPerDay
    IN  T(FromWall(z, midnight, t.sec), 0)

\* dayjs(t).tz(z).endOf("day"): the last millisecond of the local day of t
EndOfDay(z, t) ==
    LET wall == t.sec + Offset(z, t.sec)
        last == (wall \div SecPerDay) * SecPerDay + SecPerDay - 1
    IN  T(FromWall(z, last, t.sec), MsPerSec - 1)

\* dayjs(t).utc().startOf("hour")
StartOfHourUtc(t) == T((t.sec \div SecPerHour) * SecPerHour, 0)

\* .utc().format("YYYY-MM-DD HH:mm:ss"): the UTC wall clock to the second; the
\* milliseconds are dropped.  A key is the number of whole seconds, which
\* orders as the formatted text does.
Format(t) == t.sec

\* new Date(key): the instant a formatted key denotes
KeyInstant(k) == T(k, 0)

-----------------------------------------------------------------------------
(* Interval resolver                                                       *)

\* the interval tokens of the dashboard's selector
FixedIntervals == {"today", "yesterday", "1d", "7d", "30d", "90d"}

\* the tokens getPreviousInterval can hand to intervalToSql
DerivedIntervals == {"2d", "14d", "60d", "180d"}

\* tokens that are neither today, yesterday nor a number of days
UnknownIntervals == {"week"}

\* Number(text) of a text that is not a number
NaN == -1

\* Number(interval.split("d")[0]): the days of a numeric-day token, NaN
\* for a token with no leading number
DaysAgo(token) ==
    CASE token = "1d" -> 1
      [] token = "2d" -> 2
      [] token = "7d" -> 7
      [] token = "14d" -> 14
      [] token = "30d" -> 30
      [] token = "60d" -> 60
      [] token = "90d" -> 90
      [] token = "180d" -> 180
      [] OTHER -> NaN

\* a subtraction that moves the instant forward
SubtractDaysForward(t, n) ==
    IF n = NaN THEN InvalidDate ELSE AddSec(t, n * SecPerDay)

\* dayjs(t).subtract(n, "day"): n times 24 hours back, an invalid date when
\* n is NaN
SubtractDays(t, n) ==
    IF n = NaN THEN InvalidDate ELSE AddSec(t, -(n * SecPerDay))

\* a table whose default is HOUR
getIntervalTypeHourDefault(token) ==
    CASE token \in {"today", "yesterday", "1d"} -> "HOUR"
      [] token \in {"7d", "30d", "90d"} -> "DAY"
      [] OTHER -> "HOUR"

getIntervalType(token) ==
    CASE token \in {"today", "yesterday", "1d"} -> "HOUR"
      [] token \in {"7d", "30d", "90d"} -> "DAY"
      [] OTHER -> "DAY"

\* a range whose start is not moved to the start of the day or hour
getDateTimeRangeUnsnapped(token, z, now1, now2) ==
    IF token \in {"today", "yesterday"} THEN
        [startDate |-> StartOfDay(z, now1), endDate |-> now2]
    ELSE
        [startDate |-> SubtractDays(now1, DaysAgo(token)),
         endDate |-> now2]

\* getDateTimeRange(interval, tz); now1 and now2 are the two readings of the
\* clock, dayjs() at its first line and dayjs() for the default end.  A
\* subtract(n, "day") moves the instant by n times 24 hours.
getDateTimeRange(token, z, now1, now2) ==
    IF token = "today" THEN
        [startDate |-> StartOfDay(z, now1), endDate |-> now2]
    ELSE IF token = "yesterday" THEN
        LET localDateTime == AddSec(StartOfDay(z, now1), -SecPerDay)
        IN  [startDate |-> localDateTime,
             endDate |-> AddMs(EndOfDay(z, localDateTime), 2)]
    ELSE
        LET shifted == SubtractDays(now1, DaysAgo(token))
        IN  [startDate |-> IF shifted = InvalidDate THEN InvalidDate
                           ELSE IF getIntervalType(token) = "DAY"
                             THEN StartOfDay(z, shifted)
                             ELSE StartOfHourUtc(shifted),
             endDate |-> now2]

\* getPreviousInterval of the analytics engine: the switch's cases
getPreviousInterval(token) ==
    CASE token = "today" -> "yesterday"
      [] token = "yesterday" -> "2d"
      [] token = "7days" -> "14d"
      [] token = "30days" -> "60d"
      [] token = "90days" -> "180d"
      [] OTHER -> "1d"

\* The two SQL expressions intervalToSql can emit: toDateTime('<text>'), a
\* literal instant in UTC, and NOW() - INTERVAL '<days>' DAY (days = 0 for a
\* bare NOW()).
SqlDateTime(k) == [kind |-> "toDateTime", sec |-> k, days |-> 0]

SqlNowMinus(n) == [kind |-> "NOW", sec |-> 0, days |-> n]

\* intervalToSql(interval, tz); now1 and now2 are the readings of the clock
\* for the start and for the end expression
intervalToSql(token, z, now1, now2) ==
    CASE token = "today" ->
            [startIntervalSql |-> SqlDateTime(Format(StartOfDay(z, now1))),
             endIntervalSql |-> SqlNowMinus(0)]
      [] token = "yesterday" ->
            [startIntervalSql |->
                 SqlDateTime(Format(AddSec(StartOfDay(z, now1), -SecPerDay))),
             endIntervalSql |-> SqlDateTime(Format(StartOfDay(z, now2)))]
      [] token \in {"1d", "7d", "30d", "90d"} ->
            [startIntervalSql |-> SqlNowMinus(DaysAgo(token)),
             endIntervalSql |-> SqlNowMinus(0)]
      [] OTHER ->
            [startIntervalSql |-> SqlNowMinus(1),
             endIntervalSql |-> SqlNowMinus(0)]

\* the instant (seconds) the backend gives an expression when its clock
\* reads serverNow
SqlValue(e, serverNow) ==
    IF e.kind = "toDateTime" THEN e.sec ELSE serverNow - e.days * SecPerDay

-----------------------------------------------------------------------------
(* Bucket generator                                                        *)

\* a loop condition that also admits the end instant (<= for <)
InLoopInclusive(cursor, end) == Le(cursor, end)

\* the loop's condition: startDateTime.getTime() < endDateTime.getTime()
InLoop(cursor, end) == Lt(cursor, end)

\* a day step of 23 hours before the snap to the start of the day
NextCursorShort(type, z, cursor) ==
    IF type = "DAY"
      THEN StartOfDay(z, AddSec(cursor, 23 * SecPerHour))
      ELSE AddSec(cursor, SecPerHour)

\* one pass of the loop body's cursor update
NextCursor(type, z, cursor) ==
    IF type = "DAY"
      THEN StartOfDay(z, AddSec(cursor, 25 * SecPerHour))
      ELSE AddSec(cursor, SecPerHour)

\* initialRows[key] = 0 on an object: a new key is appended to the key
\* order, an existing key keeps its place
SetKey(rows, key) ==
    IF \E i \in 1..Len(rows) : rows[i] = key THEN rows ELSE Append(rows, key)

-----------------------------------------------------------------------------
(* Backend rows of the time-bucketed query                                 *)

\* toStartOfInterval(timestamp, INTERVAL '1' <type>, '<tz>') read back as
\* toDateTime(_bucket, 'Etc/UTC'): the start of the hour or day of zone z
\* that holds second s
toStartOfInterval(type, z, s) ==
    IF type = "DAY" THEN StartOfDay(z, T(s, 0)).sec
    ELSE LET wall == s + Offset(z, s)
         IN  FromWall(z, (wall \div SecPerHour) * SecPerHour, s)

\* WHERE timestamp >= toDateTime('<start>') AND timestamp < toDateTime('<end>'),
\* both bounds formatted to the second
InQueryRange(s, start, end) == Format(start) <= s /\ s < Format(end)

\* the zone of the runtime the code is deployed on
SystemZone == "Etc/UTC"

\* dayjs(new Date(row.bucket)).format("YYYY-MM-DD HH:mm:ss"): the text is
\* parsed as a wall clock of the runtime's zone and formatted in it again
RowKey(bucket) ==
    LET parsed == FromWall(SystemZone, bucket, bucket)
    IN  parsed + Offset(SystemZone, parsed)

-----------------------------------------------------------------------------
(* Result reconciler                                                       *)

ZeroCounts == [views |-> 0, visitors |-> 0, visits |-> 0]

\* a merge that adds the row to what the key already holds
MergeRowSum(old, row) ==
    [views |-> old.views + row.views,
     visitors |-> old.visitors + row.visitors,
     visits |-> old.visits + row.visits]

\* accum[key] = {views, visitors, visits} of the row
MergeRow(old, row) ==
    [views |-> row.views, visitors |-> row.visitors, visits |-> row.visits]

\* the reduce over responseData.data; accum is an object: its keys in
\* insertion order (order) and the record of each (at)
RECURSIVE ReduceRows(_, _)
ReduceRows(rows, accum) ==
    IF rows = <<>> THEN accum
    ELSE LET row == Head(rows)
             key == RowKey(row.bucket)
             had == key \in DOMAIN accum.at
             old == IF had THEN accum.at[key] ELSE ZeroCounts
         IN  ReduceRows(Tail(rows),
                 [order |-> SetKey(accum.order, key),
                  at |-> [k \in DOMAIN accum.at \cup {key} |->
                             IF k = key THEN MergeRow(old, row)
                             ELSE accum.at[k]]])

\* the seed of the reduce: every generated key with zero counts
SeedRows(keys) ==
    [order |-> keys,
     at |-> [k \in {keys[i] : i \in 1..Len(keys)} |-> ZeroCounts]]

\* a[0].localeCompare(b[0]) < 0 on two entries
EntryBefore(a, b) == a[1] < b[1]

\* Object.entries(rowsByDateTime).sort(...).map(...)
SortEntries(accum) ==
    SortSeq([i \in 1..Len(accum.order) |->
                <<accum.order[i],
                  accum.at[accum.order[i]].views,
                  accum.at[accum.order[i]].visitors,
                  accum.at[accum.order[i]].visits>>],
            EntryBefore)

-----------------------------------------------------------------------------
(* Dimension breakdowns                                                    *)

\* the dimensions a breakdown groups by
Columns == {"path", "referrer", "browserName", "country", "deviceModel"}

\* the page size a breakdown has when the caller gives none
DefaultLimit == 10

Min(a, b) == IF a < b THEN a ELSE b

\* an accumulation that takes the visitor flag for visits and the visit
\* flag for visitors
accumulateFlagsSwapped(record, row) ==
    [views |-> record.views + row.count,
     visitors |-> IF row.isVisit = 1 THEN record.visitors + row.count
                  ELSE record.visitors,
     visits |-> IF row.isVisitor = 1 THEN record.visits + row.count
                ELSE record.visits]

\* an accumulation that keeps the count of the last row as the views
accumulateLastViews(record, row) ==
    [views |-> row.count,
     visitors |-> IF row.isVisitor = 1 THEN record.visitors + row.count
                  ELSE record.visitors,
     visits |-> IF row.isVisit = 1 THEN record.visits + row.count
                ELSE record.visits]

\* accumulateCountsFromRowResult(counts, row): what record becomes
accumulateCountsFromRowResult(record, row) ==
    [views |-> record.views + row.count,
     visitors |-> IF row.isVisitor = 1 THEN record.visitors + row.count
                  ELSE record.visitors,
     visits |-> IF row.isVisit = 1 THEN record.visits + row.count
                ELSE record.visits]

\* rows.slice(begin, end) on an array
Slice(rows, begin, end) ==
    [i \in 1..(IF Min(end, Len(rows)) > begin
                 THEN Min(end, Len(rows)) - begin ELSE 0) |-> rows[begin + i]]

\* a page that starts at the first row whatever the page asked for
PageSliceNoOffset(rows, p, l) == Slice(rows, 0, l * p)

\* responseData.data.slice(limit * (page - 1), limit * page)
PageSlice(rows, p, l) == Slice(rows, l * (p - 1), l * p)

\* ORDER BY count DESC LIMIT n: the first n rows of what the query selects
LimitRows(rows, n) == Slice(rows, 0, n)

\* the object the reduce starts from
EmptyCounts == [order |-> <<>>, at |-> <<>>]

\* one call of the reducer of getAllCountsByColumn on acc and row
ReduceColumnRow(acc, row) ==
    LET key == row.value
        old == IF key \in DOMAIN acc.at THEN acc.at[key] ELSE ZeroCounts
    IN  [order |-> SetKey(acc.order, key),
         at |-> [k \in DOMAIN acc.at \cup {key} |->
                    IF k = key THEN accumulateCountsFromRowResult(old, row)
                    ELSE acc.at[k]]]

\* pageData.reduce(..., {})
RECURSIVE ReduceColumn(_, _)
ReduceColumn(rows, acc) ==
    IF rows = <<>> THEN acc
    ELSE ReduceColumn(Tail(rows), ReduceColumnRow(acc, Head(rows)))

\* a comparator that puts the fewer visitors first
VisitorsBeforeAscending(a, b) == a[2] < b[2]

\* result.sort((a, b) => b[1] - a[1]): a goes before b when the comparator
\* is negative
VisitorsBefore(a, b) == b[2] - a[2] < 0

\* Array.prototype.sort, which is stable: an entry goes behind every entry
\* it is not before
RECURSIVE StableSort(_)
StableSort(entries) ==
    IF entries = <<>> THEN <<>>
    ELSE LET n == Len(entries)
             x == entries[n]
             sorted == StableSort(SubSeq(entries, 1, n - 1))
             ahead == { i \in 1..(n - 1) :
                          \A j \in i..(n - 1) : VisitorsBefore(x, sorted[j]) }
             at == IF ahead = {} THEN n
                   ELSE CHOOSE i \in ahead : \A j \in ahead : i <= j
         IN  SubSeq(sorted, 1, at - 1) \o <<x>> \o SubSeq(sorted, at, n - 1)

\* getCountByPath / getCountByReferrer: Object.entries of the object as
\* [key, visitors, views], sorted by visitors
CountEntries(acc) ==
    StableSort([i \in 1..Len(acc.order) |->
                   <<acc.order[i], acc.at[acc.order[i]].visitors,
                     acc.at[acc.order[i]].views>>])

\* getVisitorCountByColumn: pageData.map(row => [key, Number(row.count)])
VisitorEntries(rows) == [i \in 1..Len(rows) |-> <<rows[i].value, rows[i].count>>]

-----------------------------------------------------------------------------
(* Filters                                                                 *)

\* the physical column of a logical field
ColumnMappings ==
    [path |-> "column_path", referrer |-> "column_referrer",
     browserName |-> "column_browserName", country |-> "column_country",
     deviceModel |-> "column_deviceModel"]

\* an object of string properties as its <<key, value>> pairs in insertion
\* order: key in object, object[key]
HasKey(object, key) == \E i \in 1..Len(object) : object[i][1] = key

GetKey(object, key) ==
    object[CHOOSE i \in 1..Len(object) : object[i][1] = key][2]

\* URLSearchParams.get(name): the value of the first parameter of that name
GetFirst(params, name) ==
    params[CHOOSE i \in 1..Len(params) :
               /\ params[i][1] = name
               /\ \A j \in 1..(i - 1) : params[j][1] # name][2]

\* the parameters getFiltersFromSearchParams looks for, in its order
SearchParamFilters == <<"path", "referrer", "deviceModel", "country", "browserName">>

\* getFiltersFromSearchParams(searchParams), from its i-th test on
RECURSIVE FiltersFrom(_, _)
FiltersFrom(params, i) ==
    IF i > Len(SearchParamFilters) THEN <<>>
    ELSE LET name == SearchParamFilters[i]
         IN  (IF HasKey(params, name)
                THEN << <<name, GetFirst(params, name)>> >> ELSE <<>>)
                 \o FiltersFrom(params, i + 1)

getFiltersFromSearchParams(params) == FiltersFrom(params, 1)

\* the allow-list of filtersToSql, in its order
supportedFilters == <<"path", "referrer", "browserName", "country", "deviceModel">>

\* the template literal AND <column> = '<value>': the value's characters
\* as they are
Clause(filter, value) ==
    <<"AND ", ColumnMappings[filter], " = ", "'">> \o value \o <<"'">>

\* the forEach over supportedFilters, from its i-th element on
RECURSIVE CompileFrom(_, _)
CompileFrom(object, i) ==
    IF i > Len(supportedFilters) THEN <<>>
    ELSE LET filter == supportedFilters[i]
         IN  (IF HasKey(object, filter)
                THEN Clause(filter, GetKey(object, filter)) ELSE <<>>)
                 \o CompileFrom(object, i + 1)

\* a compiler that walks the object's keys in their insertion order
RECURSIVE CompileInsertionOrder(_)
CompileInsertionOrder(object) ==
    IF object = <<>> THEN <<>>
    ELSE (IF \E i \in 1..Len(supportedFilters) : supportedFilters[i] = Head(object)[1]
            THEN Clause(Head(object)[1], Head(object)[2]) ELSE <<>>)
             \o CompileInsertionOrder(Tail(object))

\* filtersToSql(filters)
filtersToSql(object) == CompileFrom(object, 1)

-----------------------------------------------------------------------------
(* Change of a metric between two periods                                  *)

\* the texts a card shows as a percentage: N/A, or a number with a fixed
\* count of decimals and a percent sign, written as its digits taken as an
\* integer (scaled = 5000 with 2 decimals is 50.00%) and its minus sign
NotAvailable == [kind |-> "N/A", negative |-> FALSE, scaled |-> 0, decimals |-> 0]

PercentText(neg, n, d) ==
    [kind |-> "number", negative |-> neg, scaled |-> n, decimals |-> d]

Abs(n) == IF n < 0 THEN -n ELSE n

RECURSIVE Pow10(_)
Pow10(d) == IF d = 0 THEN 1 ELSE 10 * Pow10(d - 1)

\* (num / den).toFixed(d) for den > 0: the nearest number of d decimals,
\* the larger of two that are equally near, and the sign of the value
ToFixed(num, den, d) ==
    PercentText(num < 0, (2 * Abs(num) * Pow10(d) + den) \div (2 * den), d)

\* change > 0 ? true : change < 0 ? false : null
Direction(num) ==
    IF num > 0 THEN "true" ELSE IF num < 0 THEN "false" ELSE "null"

\* a change taken relative to the current value
calculateChangeOfCurrent(cur, prev) ==
    IF prev = 0 \/ cur = 0 THEN
        [percentage |-> PercentText(FALSE, 0, 0), isIncreased |-> "null"]
    ELSE
        [percentage |-> ToFixed(Abs((cur - prev) * 100), cur, 0),
         isIncreased |-> Direction(cur - prev)]

\* calculateChange of calculateMetricsChange: (cur - prev) / prev * 100,
\* shown as Math.abs(change).toFixed(0) + "%"
calculateChange(cur, prev) ==
    IF prev = 0 THEN
        [percentage |-> PercentText(FALSE, 0, 0), isIncreased |-> "null"]
    ELSE
        [percentage |-> ToFixed(Abs((cur - prev) * 100), prev, 0),
         isIncreased |-> Direction(cur - prev)]

\* calculatePercentageChange of the stats card: shown as
\* change.toFixed(2) + "%"
calculatePercentageChange(cur, prev) ==
    IF prev = 0 THEN
        [percentage |-> NotAvailable, isIncreased |-> "null"]
    ELSE
        [percentage |-> ToFixed((cur - prev) * 100, prev, 2),
         isIncreased |-> Direction(cur - prev)]

-----------------------------------------------------------------------------
(* Aggregate queries: getCounts and getEngagementMetrics                   *)

\* a field of a response row: a number, a text that is no number, or no
\* field at all
Num(n) == [kind |-> "number", n |-> n]

TextField == [kind |-> "text", n |-> 0]

Missing == [kind |-> "missing", n |-> 0]

\* Number(field || 0): 0 for a field that is missing (or 0), NaN for a
\* text that is no number
NumberOrZero(field) ==
    IF field.kind = "number" THEN field.n
    ELSE IF field.kind = "missing" THEN 0
    ELSE NaN

\* the two queries of a call
Tags == {"current", "previous"}

\* a response not yet there
NoResponse == [ok |-> FALSE, data |-> <<>>]

NoResponses == [current |-> NoResponse, previous |-> NoResponse]

\* results handed out in the order the responses arrived
ResultsInArrivalOrder(resps, order) ==
    [current |-> resps[order[1]], previous |-> resps[order[2]]]

\* Promise.all([query, prevQuery]): the results in the order of the array,
\* whatever the order of arrival
PromiseAll(resps, order) ==
    [current |-> resps.current, previous |-> resps.previous]

\* a check that lets every response pass
AnyStatusOk(resps) == TRUE

\* !(!currentResponse.ok || !previousResponse.ok)
BothOk(resps) == resps.current.ok /\ resps.previous.ok

\* data[0]?.<field>: the field of the first row, missing when there is no
\* row
FirstRowField(rows, name) ==
    IF rows = <<>> THEN Missing ELSE rows[1][name]

\* one period of getCounts' result
CountsOf(rows) ==
    [views |-> NumberOrZero(FirstRowField(rows, "views")),
     visitors |-> NumberOrZero(FirstRowField(rows, "visitors")),
     visits |-> NumberOrZero(FirstRowField(rows, "visits"))]

\* a rate as the quotient of two integers
Rate(n, d) == [num |-> n, den |-> d]

ZeroRate == Rate(0, 1)

NaNRate == Rate(NaN, 1)

\* a bounce rate of visits per bounce
calculateBounceRateInverted(row) ==
    LET total == NumberOrZero(row.total_visits)
        bounces == NumberOrZero(row.bounce_visits)
    IN  IF total = NaN \/ ~(total > 0) THEN ZeroRate
        ELSE IF bounces = NaN THEN NaNRate
        ELSE IF bounces = 0 THEN ZeroRate
        ELSE Rate(total * 100, bounces)

\* calculateBounceRate(data) on a row: total > 0 ? bounces / total * 100 : 0
calculateBounceRate(row) ==
    LET total == NumberOrZero(row.total_visits)
        bounces == NumberOrZero(row.bounce_visits)
    IN  IF total = NaN \/ ~(total > 0) THEN ZeroRate
        ELSE IF bounces = NaN THEN NaNRate
        ELSE Rate(bounces * 100, total)

\* one period of getEngagementMetrics' result, for a response with a row
EngagementOf(rows) ==
    [bounceRate |-> calculateBounceRate(rows[1]),
     duration |-> NumberOrZero(FirstRowField(rows, "avg_duration"))]

\* calculateBounceRate(data[0]) reads a property of undefined
EngagementThrows(resps) ==
    resps.current.data = <<>> \/ resps.previous.data = <<>>

-----------------------------------------------------------------------------
(* Dashboard route: the loader and the actions on the URL's parameters     *)

\* a set of URL search parameters is the sequence of its <<name, value>>
\* pairs; URLSearchParams.delete(name) removes every pair of that name
RECURSIVE searchParamsDelete(_, _)
searchParamsDelete(params, name) ==
    IF params = <<>> THEN <<>>
    ELSE (IF Head(params)[1] = name THEN <<>> ELSE <<Head(params)>>)
             \o searchParamsDelete(Tail(params), name)

\* URLSearchParams.set(name, value): the first pair of that name takes the
\* value and the others go; without one, a pair is added at the end
searchParamsSet(params, name, value) ==
    IF HasKey(params, name)
      THEN LET i == CHOOSE k \in 1..Len(params) :
                        /\ params[k][1] = name
                        /\ \A j \in 1..(k - 1) : params[j][1] # name
           IN  SubSeq(params, 1, i - 1) \o << <<name, value>> >>
                   \o searchParamsDelete(SubSeq(params, i + 1, Len(params)), name)
      ELSE Append(params, <<name, value>>)

\* url.searchParams.get("interval") || "7d"
loaderInterval(params) ==
    IF HasKey(params, "interval") /\ GetFirst(params, "interval") # ""
      THEN GetFirst(params, "interval") ELSE "7d"

\* getSitesOrderedByHits: the reduce over responseData.data, [siteId, count]
\* of each row in the order of the response
sitesOrderedByHits(rows) ==
    [i \in 1..Len(rows) |-> <<rows[i].siteId, rows[i].count>>]

\* a redirect target read from the end of the list
redirectSiteLast(hits) ==
    IF hits = <<>> THEN "" ELSE hits[Len(hits)][1]

\* sitesByHits[0]?.[0] || ""
redirectSite(hits) ==
    IF hits = <<>> THEN "" ELSE hits[1][1]

\* siteId === "@unknown" ? "" : siteId, of url.searchParams.get("site") || ""
actualSiteId(params) ==
    LET siteId == IF HasKey(params, "site") THEN GetFirst(params, "site") ELSE ""
    IN  IF siteId = "@unknown" THEN "" ELSE siteId

\* the loader's data: out
loaderOut(params, hits) ==
    [siteId |-> actualSiteId(params),
     sites |-> [i \in 1..Len(hits) |-> hits[i][1]],
     intervalType |-> getIntervalType(loaderInterval(params)),
     interval |-> loaderInterval(params),
     filters |-> getFiltersFromSearchParams(params)]

\* the page before the first loader has returned
NoLoaderData ==
    [siteId |-> "", sites |-> <<>>, intervalType |-> "", interval |-> "",
     filters |-> <<>>]

\* the promise of getSitesOrderedByHits
Pending == [state |-> "pending", value |-> <<>>]

Resolved(value) == [state |-> "resolved", value |-> value]

\* intervalOrder: the values of its elements
intervalOrder == <<"today", "yesterday", "1d", "7d", "30d", "90d">>

\* intervalOrder.findIndex(order => order.value === value), counted from 1;
\* 0 stands for findIndex's -1
findIndex(value) ==
    IF \E i \in 1..Len(intervalOrder) : intervalOrder[i] = value
      THEN CHOOSE i \in 1..Len(intervalOrder) : intervalOrder[i] = value
      ELSE 0

\* a switch that steps past the ends of the list and comes round
switchedIndexWrapping(currentIndex, direction) ==
    IF direction = "prev"
      THEN (IF currentIndex > 1 THEN currentIndex - 1 ELSE Len(intervalOrder))
      ELSE (IF currentIndex < Len(intervalOrder) THEN currentIndex + 1 ELSE 1)

\* switchInterval: newIndex
switchedIndex(currentIndex, direction) ==
    IF direction = "prev"
      THEN (IF currentIndex > 1 THEN currentIndex - 1 ELSE currentIndex)
      ELSE (IF currentIndex < Len(intervalOrder) THEN currentIndex + 1
            ELSE currentIndex)

\* handleFilterChange's loop: prev.set(key, filters[key]) for each key of
\* the object in insertion order
RECURSIVE setEach(_, _)
setEach(params, object) ==
    IF object = <<>> THEN params
    ELSE setEach(searchParamsSet(params, Head(object)[1], Head(object)[2]),
                 Tail(object))

\* a change of site that keeps the parameters there are
changeSiteKeeping(params, site, token) ==
    searchParamsSet(searchParamsSet(params, "site", site), "interval", token)

\* the length of countsByProperty that PaginatedTableCard takes for a full
\* page
PageLength == 10

\* changeSite: setSearchParams({ site, interval: data.interval })
changeSiteParams(params, site, token) ==
    << <<"site", site>>, <<"interval", token>> >>

-----------------------------------------------------------------------------
(* Inputs                                                                  *)

\* readings of the clock: mid-day, exactly at a UTC midnight, one
\* millisecond before it, two days after New York enters daylight time and
\* one day after it leaves it
Nows ==
    { T(300 * SecPerDay + 10 * SecPerHour + 15 * SecPerMin + 30, 250),
      T(300 * SecPerDay, 0),
      T(300 * SecPerDay - 1, MsPerSec - 1),
      T(193 * SecPerDay + 15 * SecPerHour + 40 * SecPerMin + 20, 0),
      T(430 * SecPerDay + 3 * SecPerHour + 20 * SecPerMin, 0) }

\* most milliseconds that pass between two readings of the clock in one call
MaxTick == 1

\* start instants of direct calls: the local midnights of the three zones
\* on the day before New York enters daylight time, a late evening, an
\* instant with milliseconds, and the midnight before New York leaves it
DirectStarts ==
    { T(190 * SecPerDay, 0),
      T(190 * SecPerDay + 5 * SecPerHour, 0),
      T(190 * SecPerDay - 5 * SecPerHour - 30 * SecPerMin, 0),
      T(190 * SecPerDay + 23 * SecPerHour + 30 * SecPerMin, 0),
      T(190 * SecPerDay + 10 * SecPerHour, 500),
      T(428 * SecPerDay + 4 * SecPerHour, 0) }

\* lengths of direct calls' ranges, as [sec, ms]; the first is negative
DirectSpans ==
    { T(-SecPerHour, 0), T(0, 0), T(0, 1), T(3 * SecPerHour, 0),
      T(3 * SecPerDay, 0), T(3 * SecPerDay, 1) }

\* the tokens the time-series loader is called with: the selector's, one
\* more numeric-day token and the unknown ones
LoaderIntervals == FixedIntervals \cup {"2d"} \cup UnknownIntervals

\* most rows of a backend response
MaxRows == 3

\* the pages and the page sizes of a breakdown call that names them
MaxPage == 3
MaxLimit == 3

\* what the dimension-grouped query of getAllCountsByColumn can select: one
\* row per dimension value and combination of the two indicators, ordered by
\* count descending
Row(v, visitor, visit, n) ==
    [value |-> v, isVisitor |-> visitor, isVisit |-> visit, count |-> n]

GroupedRows ==
    << Row("/a", 0, 0, 9), Row("/b", 1, 1, 8), Row("/a", 1, 1, 7),
       Row("/b", 0, 0, 6), Row("/c", 0, 1, 5), Row("/a", 0, 1, 4),
       Row("/c", 1, 1, 3), Row("/d", 1, 0, 3), Row("/b", 0, 1, 2),
       Row("/d", 0, 0, 2), Row("/c", 0, 0, 1), Row("/d", 1, 1, 1) >>

\* what the query of getVisitorCountByColumn can select: one row per
\* dimension value, ordered by count descending
VisitorRows ==
    << [value |-> "US", count |-> 9], [value |-> "IN", count |-> 7],
       [value |-> "DE", count |-> 7], [value |-> "FR", count |-> 4],
       [value |-> "BR", count |-> 2], [value |-> "JP", count |-> 1] >>

SeqsUpTo(S, n) == UNION { [1..m -> S] : m \in 0..n }

\* the responses to a query of getCounts: a failure, no row, a full row,
\* and a row with a field missing and a field that is no number
CountsRow(a, b, c) == [views |-> a, visitors |-> b, visits |-> c]

CountsResponses ==
    { [ok |-> FALSE, data |-> <<>>],
      [ok |-> TRUE, data |-> <<>>],
      [ok |-> TRUE, data |-> <<CountsRow(Num(12), Num(5), Num(7))>>],
      [ok |-> TRUE, data |-> <<CountsRow(TextField, Missing, Num(3))>>] }

\* the responses to a query of getEngagementMetrics: a failure, no row, a
\* row of visits some of which bounced, a row with no visit and no
\* average, a row whose visits all bounced, and a row with a field missing
\* and a field that is no number
EngagementRow(a, b, c) ==
    [total_visits |-> a, bounce_visits |-> b, avg_duration |-> c]

EngagementResponses ==
    { [ok |-> FALSE, data |-> <<>>],
      [ok |-> TRUE, data |-> <<>>],
      [ok |-> TRUE, data |-> <<EngagementRow(Num(10), Num(4), Num(30))>>],
      [ok |-> TRUE, data |-> <<EngagementRow(Num(0), Num(0), Missing)>>],
      [ok |-> TRUE, data |-> <<EngagementRow(Num(5), Num(5), Num(8))>>],
      [ok |-> TRUE, data |-> <<EngagementRow(Num(6), TextField, Missing)>>] }

\* the tokens getEngagementMetrics is called with
EngagementIntervals == {"today", "7d"}

NoMetrics == [current |-> <<>>, previous |-> <<>>]

\* values of a metric in one period
MetricValues == {0, 1, 3, 50, 100, 150, 200, 1000, 1001}

NoChange == [percentage |-> NotAvailable, isIncreased |-> "null"]

\* names of URL parameters and keys of filter objects: the five filters, the
\* site and the page
ParamNames == {"path", "referrer", "browserName", "country", "deviceModel",
               "site", "page"}

\* values, character by character: a country code, a name with an
\* apostrophe, and a text that closes the literal and goes on
ParamValues ==
    { <<"U", "S">>,
      <<"o", "'", "c">>,
      <<"x", "'", " OR ", "'", "1", "'", " = ", "'", "1">> }

\* most parameters of a URL and most keys of a filter object
MaxParams == 2

\* the filter objects of direct calls: no key twice
FilterObjects ==
    { o \in SeqsUpTo(ParamNames \X ParamValues, MaxParams) :
        \A i, j \in 1..Len(o) : o[i][1] = o[j][1] => i = j }

\* the rows the backend answers the query of getSitesOrderedByHits with:
\* one row a site, ORDER BY count DESC
SiteRow(s, c) == [siteId |-> s, count |-> c]

SiteResponses ==
    { <<>>,
      <<SiteRow("docs", 7), SiteRow("blog", 2)>>,
      <<SiteRow("", 4), SiteRow("blog", 4)>> }

\* the search parameters of the addresses the dashboard is opened at
OpenUrls ==
    { <<>>,
      << <<"interval", "90d">> >>,
      << <<"path", "/a">>, <<"interval", "week">> >>,
      << <<"site", "blog">> >>,
      << <<"site", "@unknown">>, <<"interval", "today">>, <<"country", "US">> >>,
      << <<"interval", "1d">>, <<"site", "">>, <<"interval", "30d">> >> }

\* the arguments of switchInterval
Directions == {"prev", "next"}

\* the objects the cards hand to handleFilterChange
FilterChanges ==
    { << <<"path", "/b">> >>,
      << <<"country", "US">>, <<"path", "/a">> >> }

\* the keys the filter badges hand to handleFilterDelete
FilterDeletes == {"path", "country"}

\* most handlers called while the dashboard is open
MaxClicks == 2

\* no handler has been called
NoHandler ==
    [name |-> "", arg |-> "", object |-> <<>>, prev |-> <<>>, selected |-> ""]

\* the rows of a sequence at the positions of keep, in their order
RECURSIVE Pick(_, _, _)
Pick(rows, keep, i) ==
    IF i > Len(rows) THEN <<>>
    ELSE (IF i \in keep THEN <<rows[i]>> ELSE <<>>) \o Pick(rows, keep, i + 1)

\* the datasets of a breakdown of all counts: any of the first six grouped
\* rows, with or without the six that follow
GroupedTables ==
    { Pick(GroupedRows, keep \cup tail, 1) :
        keep \in SUBSET (1..6), tail \in {{}, 7..12} }

\* eleven dimension values, ordered by count descending
ManyVisitorNames ==
    <<"AR", "AT", "AU", "BE", "CA", "CH", "CL", "CN", "CZ", "DK", "EG">>

ManyVisitorRows ==
    [i \in 1..11 |-> [value |-> ManyVisitorNames[i], count |-> 30 - 2 * i]]

\* the datasets of a breakdown of visitors: any of the six rows, and the
\* first ten and all eleven of the eleven
VisitorTables ==
    { Pick(VisitorRows, keep, 1) : keep \in SUBSET (1..6) }
        \cup { SubSeq(ManyVisitorRows, 1, n) : n \in 10..11 }

\* the events the dataset holds for a range, as the second of each and the
\* sums the backend computes for it: at the start of the range, forty
\* minutes and a day and forty minutes into it, and in its last second
Events(start, end) ==
    { [at |-> Format(start), views |-> 5, visitors |-> 2, visits |-> 3],
      [at |-> Format(start) + 40 * SecPerMin,
       views |-> 1, visitors |-> 1, visits |-> 1],
      [at |-> Format(start) + SecPerDay + 40 * SecPerMin,
       views |-> 7, visitors |-> 3, visits |-> 4],
      [at |-> Format(end) - 1, views |-> 2, visitors |-> 1, visits |-> 2] }

\* the rows the backend can return for a range; it has none for a bound
\* that reads toDateTime('Invalid Date')
BackendRows(type, z, start, end) ==
    IF start = InvalidDate \/ end = InvalidDate THEN {} ELSE
    { [bucket |-> toStartOfInterval(type, z, e.at), views |-> e.views,
       visitors |-> e.visitors, visits |-> e.visits] :
        e \in { x \in Events(start, end) : InQueryRange(x.at, start, end) } }

-----------------------------------------------------------------------------
(* State machine                                                           *)

NoDate == T(0, 0)

NoCounts == [interval |-> "", prevInterval |-> "", cur |-> <<>>,
             prev |-> <<>>, serverNow |-> 0]

Init ==
    /\ pc = "idle"
    /\ op = "none"
    /\ clock = NoDate
    /\ interval = ""
    /\ tz = "Etc/UTC"
    /\ intervalType = "DAY"
    /\ startArg = NoDate
    /\ startDateTime = NoDate
    /\ endDateTime = NoDate
    /\ initialRows = <<>>
    /\ data = <<>>
    /\ sortedRows = <<>>
    /\ counts = NoCounts
    /\ column = ""
    /\ held = <<>>
    /\ page = 1
    /\ limit = DefaultLimit
    /\ queryLimit = 0
    /\ pageData = <<>>
    /\ allCounts = EmptyCounts
    /\ result = <<>>
    /\ searchParams = <<>>
    /\ filters = <<>>
    /\ filterStr = <<>>
    /\ currentVal = 0
    /\ previousVal = 0
    /\ change = NoChange
    /\ hasMore = FALSE
    /\ requests = 0
    /\ responseOk = "none"
    /\ arrival = <<>>
    /\ responses = NoResponses
    /\ metrics = NoMetrics
    /\ url = <<>>
    /\ redirectUrl = <<>>
    /\ sitesByHits = Pending
    /\ loaderData = NoLoaderData
    /\ redirects = 0
    /\ handler = NoHandler
    /\ clicks = 0

\* getViewsGroupedByInterval(site, type, start, end, tz) called with dates
\* of the caller's choice
CallDirect ==
    /\ pc = "idle"
    /\ \E type \in {"DAY", "HOUR"}, z \in Zones, start \in DirectStarts,
          span \in DirectSpans :
        /\ intervalType' = type
        /\ tz' = z
        /\ startArg' = start
        /\ startDateTime' = start
        /\ endDateTime' = AddMs(AddSec(start, span.sec), span.ms)
    /\ op' = "direct"
    /\ interval' = ""
    /\ initialRows' = <<>>
    /\ pc' = "walk"
    /\ UNCHANGED <<clock, data, sortedRows, counts>>
    /\ UNCHANGED <<dimVars, filterVars>>
    /\ UNCHANGED viewVars
    /\ UNCHANGED fetchVars
    /\ UNCHANGED navVars

\* the time-series loader: getIntervalType, getDateTimeRange, then
\* getViewsGroupedByInterval
CallLoader ==
    /\ pc = "idle"
    /\ \E token \in LoaderIntervals, z \in Zones, now \in Nows,
          tick \in 0..MaxTick :
        LET range == getDateTimeRange(token, z, now, AddMs(now, tick))
        IN  /\ clock' = now
            /\ interval' = token
            /\ tz' = z
            /\ intervalType' = getIntervalType(token)
            /\ startArg' = range.startDate
            /\ startDateTime' = range.startDate
            /\ endDateTime' = range.endDate
    /\ op' = "loader"
    /\ initialRows' = <<>>
    /\ pc' = "walk"
    /\ UNCHANGED <<data, sortedRows, counts>>
    /\ UNCHANGED <<dimVars, filterVars>>
    /\ UNCHANGED viewVars
    /\ UNCHANGED fetchVars
    /\ UNCHANGED navVars

\* one iteration of generateEmptyRowsOverInterval's loop
WalkStep ==
    /\ pc = "walk"
    /\ InLoop(startDateTime, endDateTime)
    /\ initialRows' = SetKey(initialRows, Format(startDateTime))
    /\ startDateTime' = NextCursor(intervalType, tz, startDateTime)
    /\ UNCHANGED <<pc, op, clock, interval, tz, intervalType, startArg, endDateTime,
                   data, sortedRows, counts>>
    /\ UNCHANGED <<dimVars, filterVars>>
    /\ UNCHANGED viewVars
    /\ UNCHANGED fetchVars
    /\ UNCHANGED navVars

\* the loop's exit: the query is sent
WalkExit ==
    /\ pc = "walk"
    /\ ~InLoop(startDateTime, endDateTime)
    /\ pc' = "query"
    /\ requests' = 1
    /\ UNCHANGED <<responseOk, arrival, responses, metrics>>
    /\ UNCHANGED <<op, clock, interval, tz, intervalType, startArg, startDateTime,
                   endDateTime, initialRows, data, sortedRows, counts>>
    /\ UNCHANGED <<dimVars, filterVars>>
    /\ UNCHANGED viewVars
    /\ UNCHANGED navVars

\* the response arrives: reduce over its rows, sort, resolve
Respond ==
    /\ pc = "query"
    /\ op \in {"direct", "loader"}
    /\ \E rows \in SeqsUpTo(BackendRows(intervalType, tz, startArg, endDateTime),
                            MaxRows) :
        /\ data' = rows
        /\ sortedRows' = SortEntries(ReduceRows(rows, SeedRows(initialRows)))
    /\ pc' = "done"
    /\ UNCHANGED <<op, clock, interval, tz, intervalType, startArg, startDateTime,
                   endDateTime, initialRows, counts>>
    /\ UNCHANGED <<dimVars, filterVars>>
    /\ UNCHANGED viewVars
    /\ responseOk' = "true"
    /\ UNCHANGED <<requests, arrival, responses, metrics>>
    /\ UNCHANGED navVars

\* getCounts(site, interval, tz): the current and the previous range, and
\* the two queries sent, neither awaited yet
CallGetCounts ==
    /\ pc = "idle"
    /\ \E token \in FixedIntervals \cup DerivedIntervals \cup UnknownIntervals,
          z \in Zones, now \in Nows, tick \in 0..MaxTick, lag \in 0..MaxTick :
        LET now2 == AddMs(now, tick)
            prevInterval == getPreviousInterval(token)
        IN  /\ clock' = now
            /\ interval' = token
            /\ tz' = z
            /\ counts' = [interval |-> token,
                          prevInterval |-> prevInterval,
                          cur |-> intervalToSql(token, z, now, now2),
                          prev |-> intervalToSql(prevInterval, z, now2, now2),
                          serverNow |-> Format(now2) + lag]
    /\ op' = "counts"
    /\ pc' = "fetch"
    /\ requests' = 2
    /\ UNCHANGED <<responseOk, arrival, responses, metrics>>
    /\ UNCHANGED <<intervalType, startArg, startDateTime, endDateTime,
                   initialRows, data, sortedRows>>
    /\ UNCHANGED <<dimVars, filterVars>>
    /\ UNCHANGED viewVars
    /\ UNCHANGED navVars

\* getAllCountsByColumn(site, column, interval, tz, filters, page, limit)
\* up to the query it sends
CallGetAllCountsByColumn ==
    /\ pc = "idle"
    /\ \E c \in Columns, rows \in GroupedTables, p \in 1..MaxPage,
          l \in 1..MaxLimit :
        /\ column' = c
        /\ held' = rows
        /\ page' = p
        /\ limit' = l
        /\ queryLimit' = l * p
    /\ op' = "allCounts"
    /\ pc' = "query"
    /\ requests' = 1
    /\ UNCHANGED <<seriesVars, filterVars, pageData, allCounts, result>>
    /\ UNCHANGED <<responseOk, arrival, responses, metrics>>
    /\ UNCHANGED viewVars
    /\ UNCHANGED navVars

\* getCountByPath and getCountByReferrer: getAllCountsByColumn with the
\* page and no limit
CallGetCountByPathOrReferrer ==
    /\ pc = "idle"
    /\ \E c \in {"path", "referrer"}, rows \in GroupedTables, p \in 1..MaxPage :
        /\ column' = c
        /\ held' = rows
        /\ page' = p
        /\ limit' = DefaultLimit
        /\ queryLimit' = DefaultLimit * p
    /\ op' = "countsSorted"
    /\ pc' = "query"
    /\ requests' = 1
    /\ UNCHANGED <<seriesVars, filterVars, pageData, allCounts, result>>
    /\ UNCHANGED <<responseOk, arrival, responses, metrics>>
    /\ UNCHANGED viewVars
    /\ UNCHANGED navVars

\* getVisitorCountByColumn(site, column, interval, tz, filters, page, limit)
\* up to the query it sends
CallGetVisitorCountByColumn ==
    /\ pc = "idle"
    /\ \E c \in Columns, rows \in VisitorTables, p \in 1..MaxPage,
          l \in 1..MaxLimit :
        /\ column' = c
        /\ held' = rows
        /\ page' = p
        /\ limit' = l
        /\ queryLimit' = l * p
    /\ op' = "visitorCounts"
    /\ pc' = "query"
    /\ requests' = 1
    /\ UNCHANGED <<seriesVars, filterVars, pageData, allCounts, result>>
    /\ UNCHANGED <<responseOk, arrival, responses, metrics>>
    /\ UNCHANGED viewVars
    /\ UNCHANGED navVars

\* getCountByCountry, getCountByBrowser and getCountByDevice:
\* getVisitorCountByColumn with the page and no limit
CallGetCountByVisitorColumn ==
    /\ pc = "idle"
    /\ \E c \in {"country", "browserName", "deviceModel"},
          rows \in VisitorTables, p \in 1..MaxPage :
        /\ column' = c
        /\ held' = rows
        /\ page' = p
        /\ limit' = DefaultLimit
        /\ queryLimit' = DefaultLimit * p
    /\ op' = "visitorBreakdown"
    /\ pc' = "query"
    /\ requests' = 1
    /\ UNCHANGED <<seriesVars, filterVars, pageData, allCounts, result>>
    /\ UNCHANGED <<responseOk, arrival, responses, metrics>>
    /\ UNCHANGED viewVars
    /\ UNCHANGED navVars

\* the response of the dimension-grouped query arrives: slice, reduce,
\* resolve, and for getCountByPath and getCountByReferrer the entries
\* sorted by visitors
RespondAllCounts ==
    /\ pc = "query"
    /\ op \in {"allCounts", "countsSorted"}
    /\ LET rows == PageSlice(LimitRows(held, queryLimit), page, limit)
           acc == ReduceColumn(rows, EmptyCounts)
       IN  /\ pageData' = rows
           /\ allCounts' = acc
           /\ result' = IF op = "countsSorted" THEN CountEntries(acc) ELSE <<>>
    /\ pc' = "done"
    /\ UNCHANGED <<op, seriesVars, filterVars, column, held, page, limit,
                   queryLimit>>
    /\ UNCHANGED viewVars
    /\ responseOk' = "true"
    /\ UNCHANGED <<requests, arrival, responses, metrics>>
    /\ UNCHANGED navVars

\* the response of the visitor query arrives: slice, map, resolve
RespondVisitorCounts ==
    /\ pc = "query"
    /\ op \in {"visitorCounts", "visitorBreakdown"}
    /\ LET rows == PageSlice(LimitRows(held, queryLimit), page, limit)
       IN  /\ pageData' = rows
           /\ result' = VisitorEntries(rows)
    /\ pc' = "done"
    /\ UNCHANGED <<op, seriesVars, filterVars, column, held, page, limit,
                   queryLimit, allCounts>>
    /\ UNCHANGED viewVars
    /\ responseOk' = "true"
    /\ UNCHANGED <<requests, arrival, responses, metrics>>
    /\ UNCHANGED navVars

\* a loader reads the filters off the request's URL and the query method
\* it calls compiles them into its query
CompileSearchParams ==
    /\ pc = "idle"
    /\ \E params \in SeqsUpTo(ParamNames \X ParamValues, MaxParams) :
        /\ searchParams' = params
        /\ filters' = getFiltersFromSearchParams(params)
        /\ filterStr' = filtersToSql(getFiltersFromSearchParams(params))
    /\ op' = "urlFilters"
    /\ pc' = "done"
    /\ UNCHANGED <<seriesVars, dimVars>>
    /\ UNCHANGED viewVars
    /\ UNCHANGED fetchVars
    /\ UNCHANGED navVars

\* a query method called with a filter object of the caller's compiles it
\* into its query
CompileFilters ==
    /\ pc = "idle"
    /\ \E object \in FilterObjects :
        /\ filters' = object
        /\ filterStr' = filtersToSql(object)
    /\ op' = "filters"
    /\ pc' = "done"
    /\ UNCHANGED <<seriesVars, dimVars, searchParams>>
    /\ UNCHANGED viewVars
    /\ UNCHANGED fetchVars
    /\ UNCHANGED navVars

\* calculateMetricsChange(current, previous) on one of its metrics
CallCalculateMetricsChange ==
    /\ pc = "idle"
    /\ \E cur \in MetricValues, prev \in MetricValues :
        /\ currentVal' = cur
        /\ previousVal' = prev
        /\ change' = calculateChange(cur, prev)
    /\ op' = "metricsChange"
    /\ pc' = "done"
    /\ UNCHANGED hasMore
    /\ UNCHANGED <<seriesVars, dimVars, filterVars>>
    /\ UNCHANGED fetchVars
    /\ UNCHANGED navVars

\* the stats card renders a count and its calculatePercentageChange
RenderStatsCard ==
    /\ pc = "idle"
    /\ \E cur \in MetricValues, prev \in MetricValues :
        /\ currentVal' = cur
        /\ previousVal' = prev
        /\ change' = calculatePercentageChange(cur, prev)
    /\ op' = "statsChange"
    /\ pc' = "done"
    /\ UNCHANGED hasMore
    /\ UNCHANGED <<seriesVars, dimVars, filterVars>>
    /\ UNCHANGED fetchVars
    /\ UNCHANGED navVars

\* getEngagementMetrics(site, interval, tz): the current and the previous
\* range, and the two queries sent, neither awaited yet
CallGetEngagementMetrics ==
    /\ pc = "idle"
    /\ \E token \in EngagementIntervals, z \in Zones, now \in Nows,
          tick \in 0..MaxTick :
        LET now2 == AddMs(now, tick)
            prevInterval == getPreviousInterval(token)
        IN  /\ clock' = now
            /\ interval' = token
            /\ tz' = z
            /\ counts' = [interval |-> token,
                          prevInterval |-> prevInterval,
                          cur |-> intervalToSql(token, z, now, now2),
                          prev |-> intervalToSql(prevInterval, z, now2, now2),
                          serverNow |-> Format(now2)]
    /\ op' = "engagement"
    /\ pc' = "fetch"
    /\ requests' = 2
    /\ UNCHANGED <<responseOk, arrival, responses, metrics>>
    /\ UNCHANGED <<intervalType, startArg, startDateTime, endDateTime,
                   initialRows, data, sortedRows>>
    /\ UNCHANGED <<dimVars, filterVars, viewVars>>
    /\ UNCHANGED navVars

\* the response to one of the two queries arrives, in either order
Arrive ==
    /\ pc = "fetch"
    /\ \E tag \in Tags \ { arrival[i] : i \in 1..Len(arrival) },
          response \in (IF op = "counts" THEN CountsResponses
                          ELSE EngagementResponses) :
        /\ arrival' = Append(arrival, tag)
        /\ responses' = [responses EXCEPT ![tag] = response]
    /\ UNCHANGED <<pc, op, requests, responseOk, metrics>>
    /\ UNCHANGED <<seriesVars, dimVars, filterVars, viewVars>>
    /\ UNCHANGED navVars

\* both responses are there: Promise.all resolves and the body of the try
\* runs, which returns the result or throws
Join ==
    /\ pc = "fetch"
    /\ Len(arrival) = 2
    /\ LET all == PromiseAll(responses, arrival)
       IN  IF ~BothOk(all) THEN
               /\ pc' = "failed"
               /\ UNCHANGED metrics
           ELSE IF op = "counts" THEN
               /\ pc' = "done"
               /\ metrics' = [current |-> CountsOf(all.current.data),
                               previous |-> CountsOf(all.previous.data)]
           ELSE IF EngagementThrows(all) THEN
               /\ pc' = "failed"
               /\ UNCHANGED metrics
           ELSE
               /\ pc' = "done"
               /\ metrics' = [current |-> EngagementOf(all.current.data),
                               previous |-> EngagementOf(all.previous.data)]
    /\ UNCHANGED <<op, requests, responseOk, arrival, responses>>
    /\ UNCHANGED <<seriesVars, dimVars, filterVars, viewVars>>
    /\ UNCHANGED navVars

\* the response to the query of getViewsGroupedByInterval,
\* getAllCountsByColumn or getVisitorCountByColumn is not a success:
\* reject(response.statusText).  The body goes on, there being no return,
\* to response.json(), which throws because query() has read the response
\* as text; the promise stays rejected.
RespondNotOk ==
    /\ pc = "query"
    /\ pc' = "failed"
    /\ responseOk' = "false"
    /\ UNCHANGED <<requests, arrival, responses, metrics>>
    /\ UNCHANGED <<op, seriesVars, dimVars, filterVars, viewVars>>
    /\ UNCHANGED navVars

\* the dashboard route is opened at an address: its loader runs to the
\* await of getSitesOrderedByHits, whose query is sent
OpenDashboard ==
    /\ pc = "idle"
    /\ \E params \in OpenUrls : url' = params
    /\ op' = "dashboard"
    /\ pc' = "query"
    /\ requests' = 1
    /\ UNCHANGED <<redirectUrl, sitesByHits, loaderData, redirects, handler,
                   clicks>>
    /\ UNCHANGED <<responseOk, arrival, responses, metrics>>
    /\ UNCHANGED <<seriesVars, dimVars, filterVars, viewVars>>

\* the response to the query of getSitesOrderedByHits is a success: the
\* promise resolves and the loader goes on to its end, a redirect when the
\* address has no site and its data otherwise
RespondSites ==
    /\ pc = "query"
    /\ op = "dashboard"
    /\ \E rows \in SiteResponses :
        LET hits == sitesOrderedByHits(rows)
        IN  /\ sitesByHits' = Resolved(hits)
            /\ IF ~HasKey(url, "site")
                 THEN /\ redirectUrl' =
                            searchParamsSet(url, "site", redirectSite(hits))
                      /\ pc' = "redirect"
                      /\ UNCHANGED loaderData
                 ELSE /\ loaderData' = loaderOut(url, hits)
                      /\ pc' = "done"
                      /\ UNCHANGED redirectUrl
    /\ responseOk' = "true"
    /\ UNCHANGED <<url, redirects, handler, clicks>>
    /\ UNCHANGED <<op, requests, arrival, responses, metrics>>
    /\ UNCHANGED <<seriesVars, dimVars, filterVars, viewVars>>

\* the router follows the redirect: the route is at the new address and its
\* loader runs again
FollowRedirect ==
    /\ pc = "redirect"
    /\ url' = redirectUrl
    /\ redirectUrl' = <<>>
    /\ redirects' = redirects + 1
    /\ sitesByHits' = Pending
    /\ responseOk' = "none"
    /\ requests' = 1
    /\ pc' = "query"
    /\ UNCHANGED <<loaderData, handler, clicks>>
    /\ UNCHANGED <<op, arrival, responses, metrics>>
    /\ UNCHANGED <<seriesVars, dimVars, filterVars, viewVars>>

\* a handler of the Dashboard component may be called: the component is
\* rendered with the data of a loader, also while a later loader runs
Rendered ==
    /\ op = "dashboard"
    /\ pc \in {"query", "done"}
    /\ loaderData # NoLoaderData
    /\ clicks < MaxClicks

\* setSearchParams(params) by the handler name called with arg and object:
\* the route navigates to the address and its loader runs
Navigate(name, arg, object, params) ==
    /\ url' = params
    /\ handler' = [name |-> name, arg |-> arg, object |-> object, prev |-> url,
                    selected |-> loaderData.interval]
    /\ clicks' = clicks + 1
    /\ redirects' = 0
    /\ redirectUrl' = <<>>
    /\ sitesByHits' = Pending
    /\ responseOk' = "none"
    /\ requests' = 1
    /\ pc' = "query"
    /\ UNCHANGED <<op, loaderData, arrival, responses, metrics>>
    /\ UNCHANGED <<seriesVars, dimVars, filterVars, viewVars>>

\* changeInterval(interval), from the interval selector
ChangeInterval ==
    /\ Rendered
    /\ \E token \in FixedIntervals :
        Navigate("changeInterval", token, <<>>,
                 searchParamsSet(url, "interval", token))

\* switchInterval(direction), from the two arrows: nothing happens when the
\* interval of the loader's data is not in intervalOrder
SwitchInterval ==
    /\ Rendered
    /\ \E direction \in Directions :
        LET currentIndex == findIndex(loaderData.interval)
        IN  IF currentIndex = 0
              THEN /\ handler' = [name |-> "switchInterval", arg |-> direction,
                                  object |-> <<>>, prev |-> url,
                                  selected |-> loaderData.interval]
                   /\ clicks' = clicks + 1
                   /\ UNCHANGED <<pc, op, url, redirectUrl, sitesByHits,
                                  loaderData, redirects>>
                   /\ UNCHANGED <<fetchVars, seriesVars, dimVars, filterVars,
                                  viewVars>>
              ELSE Navigate("switchInterval", direction, <<>>,
                            searchParamsSet(url, "interval",
                                intervalOrder[switchedIndex(currentIndex,
                                                            direction)]))

\* handleFilterChange(filters), from a card
HandleFilterChange ==
    /\ Rendered
    /\ \E object \in FilterChanges :
        Navigate("handleFilterChange", "", object, setEach(url, object))

\* handleFilterDelete(key), from a filter badge
HandleFilterDelete ==
    /\ Rendered
    /\ \E key \in FilterDeletes :
        Navigate("handleFilterDelete", key, <<>>, searchParamsDelete(url, key))

\* changeSite(site), from the site selector, whose items are the sites of
\* the loader's data with @unknown for the empty one
ChangeSite ==
    /\ Rendered
    /\ \E i \in 1..Len(loaderData.sites) :
        LET site == IF loaderData.sites[i] = "" THEN "@unknown"
                    ELSE loaderData.sites[i]
        IN  Navigate("changeSite", site, <<>>,
                     changeSiteParams(url, site, loaderData.interval))

\* PaginatedTableCard renders the page its fetcher loaded through
\* getCountByPath, getCountByReferrer, getCountByCountry, getCountByBrowser
\* or getCountByDevice
RenderPaginatedTableCard ==
    /\ pc = "done"
    /\ op \in {"countsSorted", "visitorBreakdown"}
    /\ hasMore' = (Len(result) = PageLength)
    /\ pc' = "rendered"
    /\ UNCHANGED <<currentVal, previousVal, change>>
    /\ UNCHANGED <<op, seriesVars, dimVars, filterVars, fetchVars, navVars>>

\* the result is handed to the caller
Return ==
    /\ pc \in {"done", "failed", "rendered"}
    /\ pc' = "idle"
    /\ op' = "none"
    /\ clock' = NoDate
    /\ interval' = ""
    /\ tz' = "Etc/UTC"
    /\ intervalType' = "DAY"
    /\ startArg' = NoDate
    /\ startDateTime' = NoDate
    /\ endDateTime' = NoDate
    /\ initialRows' = <<>>
    /\ data' = <<>>
    /\ sortedRows' = <<>>
    /\ counts' = NoCounts
    /\ column' = ""
    /\ held' = <<>>
    /\ page' = 1
    /\ limit' = DefaultLimit
    /\ queryLimit' = 0
    /\ pageData' = <<>>
    /\ allCounts' = EmptyCounts
    /\ result' = <<>>
    /\ searchParams' = <<>>
    /\ filters' = <<>>
    /\ filterStr' = <<>>
    /\ currentVal' = 0
    /\ previousVal' = 0
    /\ change' = NoChange
    /\ hasMore' = FALSE
    /\ requests' = 0
    /\ responseOk' = "none"
    /\ arrival' = <<>>
    /\ responses' = NoResponses
    /\ metrics' = NoMetrics
    /\ url' = <<>>
    /\ redirectUrl' = <<>>
    /\ sitesByHits' = Pending
    /\ loaderData' = NoLoaderData
    /\ redirects' = 0
    /\ handler' = NoHandler
    /\ clicks' = 0

Next ==
    \/ CallDirect
    \/ CallLoader
    \/ WalkStep
    \/ WalkExit
    \/ Respond
    \/ CallGetCounts
    \/ CallGetAllCountsByColumn
    \/ CallGetCountByPathOrReferrer
    \/ CallGetVisitorCountByColumn
    \/ CallGetCountByVisitorColumn
    \/ RespondAllCounts
    \/ RespondVisitorCounts
    \/ CompileSearchParams
    \/ CompileFilters
    \/ CallCalculateMetricsChange
    \/ RenderStatsCard
    \/ CallGetEngagementMetrics
    \/ Arrive
    \/ Join
    \/ RespondNotOk
    \/ OpenDashboard
    \/ RespondSites
    \/ FollowRedirect
    \/ ChangeInterval
    \/ SwitchInterval
    \/ HandleFilterChange
    \/ HandleFilterDelete
    \/ ChangeSite
    \/ RenderPaginatedTableCard
    \/ Return

Spec == Init /\ [][Next]_vars

\* The loop and the promise's body run to completion once entered: nothing
\* suspends generateEmptyRowsOverInterval between two iterations.
FairSpec == Spec /\ WF_vars(WalkStep) /\ WF_vars(WalkExit)

-----------------------------------------------------------------------------
(* Properties of the bucket generator                                      *)

\* a call of generateEmptyRowsOverInterval is running or has returned
Generating == pc \in {"walk", "query", "done"} /\ op \in {"direct", "loader"}

\* the generator has returned
Generated == pc \in {"query", "done"} /\ op \in {"direct", "loader"}

StrictlyAscending(keys) ==
    \A i \in 1..(Len(keys) - 1) : keys[i] < keys[i + 1]

\* the calendar day of zone z that holds second s
LocalDay(z, s) == (s + Offset(z, s)) \div SecPerDay

\* C1 as stated: for start < end the keys are strictly ascending, none
\* denotes an instant before start and none an instant at or after end; for
\* start >= end there is no key.
C1_AsStated ==
    Generating =>
        IF Lt(startArg, endDateTime)
          THEN /\ StrictlyAscending(initialRows)
               /\ \A i \in 1..Len(initialRows) :
                    /\ ~Lt(KeyInstant(initialRows[i]), startArg)
                    /\ Lt(KeyInstant(initialRows[i]), endDateTime)
          ELSE initialRows = <<>>

\* C1 amended: for start < end the keys are strictly ascending, none denotes
\* an instant before start truncated to the whole second and none an instant
\* at or after end; for start >= end there is no key.
C1_KeysOrderedWithinRange ==
    Generating =>
        IF Lt(startArg, endDateTime)
          THEN /\ StrictlyAscending(initialRows)
               /\ \A i \in 1..Len(initialRows) :
                    /\ ~Lt(KeyInstant(initialRows[i]), T(startArg.sec, 0))
                    /\ Lt(KeyInstant(initialRows[i]), endDateTime)
          ELSE initialRows = <<>>

\* a daily walk of at least three keys from a start that carries milliseconds
C1_Witness ==
    /\ Generated
    /\ intervalType = "DAY"
    /\ startArg.ms # 0
    /\ Len(initialRows) >= 3
    /\ initialRows[1] = startArg.sec

\* C2 as stated: consecutive keys are one hour apart for HOUR and on
\* consecutive calendar days of the time zone for DAY, whatever the time of
\* day of start.
C2_OneUnitApart ==
    Generating =>
        \A i \in 1..(Len(initialRows) - 1) :
            IF intervalType = "HOUR"
              THEN initialRows[i + 1] = initialRows[i] + SecPerHour
              ELSE LocalDay(tz, initialRows[i + 1]) =
                       LocalDay(tz, initialRows[i]) + 1

\* C3: every iteration of the walk moves the cursor strictly forward, and a
\* walk once entered reaches its end.
C3_WalkTerminates ==
    /\ [][WalkStep => Lt(startDateTime, startDateTime')]_vars
    /\ (pc = "walk") ~> (pc = "query")

\* a finished daily walk over New York's 23-hour day: two consecutive keys
\* lie 23 hours apart
C3_Witness ==
    /\ Generated
    /\ intervalType = "DAY"
    /\ tz = "America/New_York"
    /\ \E i \in 1..(Len(initialRows) - 1) :
          initialRows[i + 1] = initialRows[i] + 23 * SecPerHour

-----------------------------------------------------------------------------
(* Properties of the time-series reconciliation                            *)

\* getViewsGroupedByInterval has resolved
SeriesDone == pc = "done" /\ op \in {"direct", "loader"}

KeysOf(keys) == { keys[i] : i \in 1..Len(keys) }

\* the positions of the response's rows that carry a key
RowsFor(key) == { i \in 1..Len(data) : RowKey(data[i].bucket) = key }

\* the last row of the response that carries a key
LastRowFor(key) ==
    data[CHOOSE i \in RowsFor(key) : \A j \in RowsFor(key) : j <= i]

\* the entry a key must have after a left-biased merge
MergedEntry(key) ==
    IF RowsFor(key) = {} THEN <<key, 0, 0, 0>>
    ELSE <<key, LastRowFor(key).views, LastRowFor(key).visitors,
           LastRowFor(key).visits>>

\* C4: every generated key has one entry in the series; it carries zeros
\* when no row of the response matches the key and otherwise exactly the
\* values of the (last) matching row, never a sum.
C4_LeftBiasedMerge ==
    SeriesDone =>
        LET keys == KeysOf(initialRows)
            seriesKeys == { sortedRows[i][1] : i \in 1..Len(sortedRows) }
        IN  /\ keys \subseteq seriesKeys
            /\ Cardinality(seriesKeys) = Len(sortedRows)
            /\ \A i \in 1..Len(sortedRows) :
                  sortedRows[i][1] \in keys =>
                      sortedRows[i] = MergedEntry(sortedRows[i][1])

\* a series with a key no row matches and a key two rows with different
\* values match
C4_Witness ==
    /\ SeriesDone
    /\ \E key \in KeysOf(initialRows) : RowsFor(key) = {}
    /\ \E key \in KeysOf(initialRows) :
          \E i, j \in RowsFor(key) : i < j /\ data[i].views # data[j].views

\* every row's bucket denotes an instant inside [start, end)
BucketsInRange ==
    \A i \in 1..Len(data) :
        /\ ~Lt(KeyInstant(data[i].bucket), startArg)
        /\ Lt(KeyInstant(data[i].bucket), endDateTime)

\* C5 as stated, for the ranges getDateTimeRange resolves: when every row's
\* bucket lies inside [start, end), the series has exactly one entry per
\* generated key and no other entry.
C5_OneEntryPerKey ==
    (pc = "done" /\ op = "loader" /\ BucketsInRange) =>
        /\ Len(sortedRows) = Len(initialRows)
        /\ { sortedRows[i][1] : i \in 1..Len(sortedRows) } = KeysOf(initialRows)

\* the 7d interval in UTC through the loader
SevenDaysUtc == op = "loader" /\ interval = "7d" /\ tz = "Etc/UTC"

\* the response populates exactly three generated keys, with nonzero views
ThreeKeysPopulated ==
    /\ Cardinality({ RowKey(data[i].bucket) : i \in 1..Len(data) }) = 3
    /\ \A i \in 1..Len(data) :
          RowKey(data[i].bucket) \in KeysOf(initialRows) /\ data[i].views # 0

\* the number of entries of the series that carry no count at all
ZeroEntries ==
    Cardinality({ i \in 1..Len(sortedRows) :
                    sortedRows[i][2] = 0 /\ sortedRows[i][3] = 0
                    /\ sortedRows[i][4] = 0 })

\* the number of entries of the series with nonzero views
PopulatedEntries ==
    Cardinality({ i \in 1..Len(sortedRows) : sortedRows[i][2] # 0 })

MidnightsInRange ==
    LET span == endDateTime.sec - startArg.sec
    IN  IF endDateTime.ms = 0 /\ span % SecPerDay = 0
          THEN span \div SecPerDay
          ELSE span \div SecPerDay + 1

\* both readings of the clock fall on one UTC day, after its midnight
WithinOneDay ==
    /\ clock # StartOfDay("Etc/UTC", clock)
    /\ StartOfDay("Etc/UTC", endDateTime) = StartOfDay("Etc/UTC", clock)

-----------------------------------------------------------------------------
(* Properties of the interval resolver                                     *)

\* C7 as stated: for yesterday the resolved range starts one day before
\* today's local midnight and ends exactly at today's local midnight, and
\* the hourly series has no bucket at or after today's local midnight.
C7_YesterdayEndsAtMidnight ==
    (op = "loader" /\ interval = "yesterday" /\ pc \in {"walk", "query", "done"}) =>
        /\ startArg = AddSec(StartOfDay(tz, clock), -SecPerDay)
        /\ endDateTime = StartOfDay(tz, clock)
        /\ \A i \in 1..Len(initialRows) :
              Lt(KeyInstant(initialRows[i]), StartOfDay(tz, clock))

\* getCounts has built its two queries
CountsBuilt == op = "counts" /\ pc = "done"

\* C8 as stated: for today, 7d and 30d the previous range ends at or before
\* the start of the current range.
C8_PreviousPrecedesCurrent ==
    (CountsBuilt /\ interval \in {"today", "7d", "30d"}) =>
        SqlValue(counts.prev.endIntervalSql, counts.serverNow)
            <= SqlValue(counts.cur.startIntervalSql, counts.serverNow)

\* C9 as stated: today maps to yesterday, 7d to 14d and 30d to 60d.
C9_PreviousIntervalTable ==
    CountsBuilt =>
        /\ interval = "today" => counts.prevInterval = "yesterday"
        /\ interval = "7d" => counts.prevInterval = "14d"
        /\ interval = "30d" => counts.prevInterval = "60d"

\* the numeric-day tokens
NumericIntervals == (FixedIntervals \cup DerivedIntervals) \ {"today", "yesterday"}

\* C10 as stated: for every token <N>d intervalToSql emits a start of NOW()
\* minus N days and an end of NOW(), and getDateTimeRange returns a start
\* exactly N days before the end.
C10_NumericDayRange ==
    /\ (CountsBuilt /\ interval \in NumericIntervals) =>
          /\ counts.cur.startIntervalSql = SqlNowMinus(DaysAgo(interval))
          /\ counts.cur.endIntervalSql = SqlNowMinus(0)
    /\ (op = "loader" /\ interval \in NumericIntervals) =>
          startArg = AddSec(endDateTime, -(DaysAgo(interval) * SecPerDay))

-----------------------------------------------------------------------------
(* Unknown tokens, strictness of the range, bucket granularity             *)

\* the default range of intervalToSql: NOW() minus one day to NOW()
DefaultSqlRange ==
    [startIntervalSql |-> SqlNowMinus(1), endIntervalSql |-> SqlNowMinus(0)]

\* C11 as stated: a token that is neither today, yesterday nor <N>d never
\* fails and resolves to the default range of one day, in intervalToSql and
\* in getDateTimeRange alike: the time-series loader gets a valid range that
\* is not empty, and so a series that has keys.
C11_UnknownTokenDefault ==
    /\ (CountsBuilt /\ interval \in UnknownIntervals) =>
          counts.cur = DefaultSqlRange
    /\ (op = "loader" /\ interval \in UnknownIntervals) =>
          /\ startArg # InvalidDate
          /\ Lt(startArg, endDateTime)
          /\ SeriesDone => sortedRows # <<>>

\* the bounds of getCounts' current range as the backend evaluates them
CurStart == SqlValue(counts.cur.startIntervalSql, counts.serverNow)

CurEnd == SqlValue(counts.cur.endIntervalSql, counts.serverNow)

\* C12 as stated: for every token of the selector, every zone and every
\* instant, an instant exactly on a local day boundary included, the start
\* of the range is strictly before its end.
C12_AsStated ==
    /\ (op = "loader" /\ interval \in FixedIntervals) =>
          Lt(startArg, endDateTime)
    /\ (CountsBuilt /\ interval \in FixedIntervals) => CurStart < CurEnd

\* C12: for every token of the selector the start of the range is strictly
\* before its end, except that the range of today is empty (start = end)
\* when the clock reads the local midnight itself: for getDateTimeRange to
\* the millisecond, for intervalToSql, whose bounds have second precision,
\* within the first second of the local day.
C12_StartBeforeEndOffMidnight ==
    /\ (op = "loader" /\ interval \in FixedIntervals) =>
          \/ Lt(startArg, endDateTime)
          \/ /\ interval = "today"
             /\ startArg = endDateTime
             /\ clock = StartOfDay(tz, clock)
    /\ (CountsBuilt /\ interval \in FixedIntervals) =>
          \/ CurStart < CurEnd
          \/ /\ interval = "today"
             /\ CurStart = CurEnd
             /\ Format(clock) = Format(StartOfDay(tz, clock))

\* today asked for at the local midnight: the range is empty
C12_Witness ==
    /\ op = "loader"
    /\ interval = "today"
    /\ clock = StartOfDay(tz, clock)
    /\ startArg = endDateTime

\* C13: getIntervalType is a total table: HOUR for today, yesterday and 1d,
\* DAY for every other token, 7d, 30d, 90d, another number of days and an
\* unknown token included.
C13_IntervalTypeTable ==
    op = "loader" =>
        intervalType = IF interval \in {"today", "yesterday", "1d"}
                         THEN "HOUR" ELSE "DAY"

\* the loader called with an unknown token
C13_Witness ==
    /\ op = "loader"
    /\ interval \in UnknownIntervals
    /\ intervalType = "DAY"

-----------------------------------------------------------------------------
(* Dimension breakdowns: accumulation, pagination, order                   *)

\* a breakdown of all counts has resolved
AllCountsDone == pc = "done" /\ op \in {"allCounts", "countsSorted"}

\* a breakdown of visitors has resolved
VisitorCountsDone == pc = "done" /\ op \in {"visitorCounts", "visitorBreakdown"}

\* the object after the first n rows of the page
CountsAfter(n) == ReduceColumn(SubSeq(pageData, 1, n), EmptyCounts)

\* the record of key in an object, zero when the object has none
RecordOf(acc, key) ==
    IF key \in DOMAIN acc.at THEN acc.at[key] ELSE ZeroCounts

\* C14: each row of the page adds its count to the views of its dimension
\* value's record unconditionally, to the visits only when isVisit = 1 and
\* to the visitors only when isVisitor = 1, and changes the record of no
\* other dimension value.
C14_AccumulateByIndicator ==
    AllCountsDone =>
        /\ allCounts = CountsAfter(Len(pageData))
        /\ \A n \in 1..Len(pageData) :
              LET row == pageData[n]
                  before == CountsAfter(n - 1)
                  after == CountsAfter(n)
                  old == RecordOf(before, row.value)
                  new == RecordOf(after, row.value)
              IN  /\ new.views = old.views + row.count
                  /\ new.visits = old.visits +
                        (IF row.isVisit = 1 THEN row.count ELSE 0)
                  /\ new.visitors = old.visitors +
                        (IF row.isVisitor = 1 THEN row.count ELSE 0)
                  /\ DOMAIN after.at = DOMAIN before.at \cup {row.value}
                  /\ \A k \in DOMAIN before.at \ {row.value} :
                        after.at[k] = before.at[k]

\* a page with a row of each kind: a view that is neither a visit nor a
\* visitor, a visit that is no visitor, and a visitor
C14_Witness ==
    /\ AllCountsDone
    /\ \E i, j, k \in 1..Len(pageData) :
          /\ pageData[i].isVisit = 0 /\ pageData[i].isVisitor = 0
          /\ pageData[j].isVisit = 1 /\ pageData[j].isVisitor = 0
          /\ pageData[k].isVisitor = 1
    /\ \E v \in DOMAIN allCounts.at :
          allCounts.at[v].visitors < allCounts.at[v].visits
              /\ allCounts.at[v].visits < allCounts.at[v].views

\* the permutations of 1..n
PermutationsOf(n) ==
    { f \in [1..n -> 1..n] : \A i, j \in 1..n : f[i] = f[j] => i = j }

\* the exchanges of two positions of 1..n
Exchanges(n) ==
    { [k \in 1..n |-> IF k = i THEN j ELSE IF k = j THEN i ELSE k] :
        i \in 1..n, j \in 1..n }

\* the orders a page is tried in: every permutation of a page of up to
\* four rows; of a longer page every exchange of two rows, and the reverse
Reorderings(n) ==
    IF n <= 4 THEN PermutationsOf(n)
    ELSE Exchanges(n) \cup {[k \in 1..n |-> n + 1 - k]}

\* C15: the totals of every dimension value are the same in whatever order
\* the rows of the page are accumulated.
C15_OrderIndependent ==
    AllCountsDone =>
        \A f \in Reorderings(Len(pageData)) :
            ReduceColumn([i \in 1..Len(pageData) |-> pageData[f[i]]],
                         EmptyCounts).at = allCounts.at

\* a page of three rows or more, two of them of one dimension value
C15_Witness ==
    /\ AllCountsDone
    /\ Len(pageData) >= 3
    /\ \E i, j \in 1..Len(pageData) :
          i < j /\ pageData[i].value = pageData[j].value

\* the sum of the counts of the rows of a sequence that carry value v
RECURSIVE SumFor(_, _)
SumFor(rows, v) ==
    IF rows = <<>> THEN 0
    ELSE (IF Head(rows).value = v THEN Head(rows).count ELSE 0)
             + SumFor(Tail(rows), v)

\* the dimension values of the rows of a sequence
ValuesOf(rows) == { rows[i].value : i \in 1..Len(rows) }

\* the dimension values page p reports
ValuesOnPage(p) == ValuesOf(PageSlice(LimitRows(held, limit * p), p, limit))

\* C16 as stated: for any page and limit a breakdown of all counts holds
\* one merged record per dimension value whose views are the sum of the
\* counts of all the rows the backend holds for that value, and no value
\* is reported on two pages.
C16_OneCompleteRecordPerValue ==
    AllCountsDone =>
        \A v \in DOMAIN allCounts.at :
            /\ allCounts.at[v].views = SumFor(held, v)
            /\ \A p \in 1..(Len(held) + 1) : p # page => v \notin ValuesOnPage(p)

\* the rows at positions i..j of a sequence, none when i > j
RowsFromTo(rows, i, j) == [k \in 1..(IF j >= i THEN j - i + 1 ELSE 0) |-> rows[i + k - 1]]

\* what pages 1..k of getVisitorCountByColumn hold, one after the other
RECURSIVE PagesUpTo(_)
PagesUpTo(k) ==
    IF k = 0 THEN <<>>
    ELSE PagesUpTo(k - 1)
             \o VisitorEntries(PageSlice(LimitRows(held, limit * k), k, limit))

\* C17: getVisitorCountByColumn asks the backend for LIMIT limit * page and
\* returns the rows at positions (page - 1) * limit + 1 to
\* min(page * limit, N) of the N the backend holds; pages 1..k one after the
\* other are the first min(k * limit, N) rows, none repeated and none
\* skipped.
C17_PageIsSliceOfOrder ==
    VisitorCountsDone =>
        LET n == Len(held)
        IN  /\ queryLimit = limit * page
            /\ result = VisitorEntries(RowsFromTo(held, (page - 1) * limit + 1,
                                                  Min(page * limit, n)))
            /\ PagesUpTo(page) =
                  VisitorEntries(RowsFromTo(held, 1, Min(page * limit, n)))

\* a last page that is not full, after a full one
C17_Witness ==
    /\ VisitorCountsDone
    /\ page >= 2
    /\ result # <<>>
    /\ Len(result) < limit

\* C18: every breakdown handed back (by path, referrer, country, browser
\* or device) is in non-increasing order of visitors, the backend returning
\* its rows by count descending.
C18_VisitorsNonIncreasing ==
    (pc = "done" /\ op \in {"countsSorted", "visitorCounts", "visitorBreakdown"}) =>
        \A i, j \in 1..Len(result) : i < j => result[i][2] >= result[j][2]

\* a breakdown by path whose object holds the dimension values in another
\* order than that of their visitors
C18_Witness ==
    /\ pc = "done"
    /\ op = "countsSorted"
    /\ Len(result) >= 3
    /\ \E i, j \in 1..Len(allCounts.order) :
          /\ i < j
          /\ allCounts.at[allCounts.order[i]].visitors
                 < allCounts.at[allCounts.order[j]].visitors

-----------------------------------------------------------------------------
(* Filters: allow-list, order, quoting                                     *)

\* a filter object has been compiled
FiltersCompiled == pc = "done" /\ op \in {"urlFilters", "filters"}

AllowList == {"path", "referrer", "browserName", "country", "deviceModel"}

\* the positions of a text where a clause starts
ClauseStarts(text) == { i \in 1..Len(text) : text[i] = "AND " }

\* the clause of key in a text: AND, its column, =, and its value in quotes
HasClauseAt(text, i, key, value) ==
    /\ i + 4 + Len(value) <= Len(text)
    /\ SubSeq(text, i, i + 3) = <<"AND ", ColumnMappings[key], " = ", "'">>
    /\ SubSeq(text, i + 4, i + 3 + Len(value)) = value
    /\ text[i + 4 + Len(value)] = "'"

\* the place of a key in the fixed order path, referrer, browserName,
\* country, deviceModel
PlaceOf(key) ==
    CASE key = "path" -> 1
      [] key = "referrer" -> 2
      [] key = "browserName" -> 3
      [] key = "country" -> 4
      [] key = "deviceModel" -> 5

\* the characters of the values of the keys of a set in an object
RECURSIVE SumLen(_, _)
SumLen(object, keys) ==
    IF object = <<>> THEN 0
    ELSE (IF Head(object)[1] \in keys THEN Len(Head(object)[2]) ELSE 0)
             + SumLen(Tail(object), keys)

\* the objects that hold the pairs of an object in another insertion order
Reordered(object) ==
    { [i \in 1..Len(object) |-> object[f[i]]] : f \in PermutationsOf(Len(object)) }

\* C19: filtersToSql emits one equality clause for each allow-listed key
\* the object has and none for any other key, in the fixed order of the
\* allow-list whatever the insertion order, so that objects of the same
\* pairs compile to the same text; getFiltersFromSearchParams admits no
\* parameter that is not allow-listed.
C19_AllowListedClausesInFixedOrder ==
    FiltersCompiled =>
        LET present == { k \in AllowList : HasKey(filters, k) }
            start == [k \in present |->
                         CHOOSE i \in ClauseStarts(filterStr) :
                             HasClauseAt(filterStr, i, k, GetKey(filters, k))]
        IN  /\ \A k \in present :
                  \E i \in ClauseStarts(filterStr) :
                      HasClauseAt(filterStr, i, k, GetKey(filters, k))
            /\ \A k1, k2 \in present :
                  PlaceOf(k1) < PlaceOf(k2) => start[k1] < start[k2]
            /\ Len(filterStr) =
                  5 * Cardinality(present)
                      + SumLen(filters, present)
            /\ \A o \in Reordered(filters) : filtersToSql(o) = filterStr
            /\ op = "urlFilters" =>
                  /\ \A i \in 1..Len(filters) : filters[i][1] \in AllowList
                  /\ \A k \in AllowList :
                        HasKey(filters, k) <=> HasKey(searchParams, k)
                  /\ \A k \in present :
                        \E i \in 1..Len(searchParams) :
                            searchParams[i] = <<k, GetKey(filters, k)>>

\* an object of two allow-listed keys inserted against the fixed order
C19_Witness ==
    /\ FiltersCompiled
    /\ op = "filters"
    /\ Len(filters) = 2
    /\ filters[1][1] = "country"
    /\ filters[2][1] = "path"
    /\ filterStr # <<>>

\* SQL's reading of a fragment from position i on: a literal runs from its
\* opening quote to the next quote; the fragment is a run of
\* AND <column> = '<literal>' predicates, or it is not (ok = FALSE)
RECURSIVE ReadPredicates(_, _)
ReadPredicates(text, i) ==
    IF i > Len(text) THEN [ok |-> TRUE, predicates |-> <<>>]
    ELSE IF ~(/\ i + 4 <= Len(text)
              /\ text[i] = "AND "
              /\ \E k \in AllowList : text[i + 1] = ColumnMappings[k]
              /\ text[i + 2] = " = "
              /\ text[i + 3] = "'"
              /\ \E j \in (i + 4)..Len(text) : text[j] = "'")
      THEN [ok |-> FALSE, predicates |-> <<>>]
    ELSE LET close == CHOOSE j \in (i + 4)..Len(text) :
                          /\ text[j] = "'"
                          /\ \A m \in (i + 4)..(j - 1) : text[m] # "'"
             rest == ReadPredicates(text, close + 1)
         IN  [ok |-> rest.ok,
              predicates |->
                  << <<text[i + 1], SubSeq(text, i + 4, close - 1)>> >>
                      \o rest.predicates]

\* the predicates the filters ask for: column = value, in the fixed order
WantedPredicates ==
    LET present == { k \in AllowList : HasKey(filters, k) }
    IN  { <<ColumnMappings[k], GetKey(filters, k)>> : k \in present }

\* C20 as stated: whatever the value of a filter, a single quote in it
\* included, the fragment reads as the equality predicates asked for and
\* nothing else: the value is only ever inside its literal, it neither
\* closes it nor adds or alters a predicate.
C20_ValueStaysInsideLiteral ==
    FiltersCompiled =>
        LET read == ReadPredicates(filterStr, 1)
        IN  /\ read.ok
            /\ { read.predicates[i] : i \in 1..Len(read.predicates) }
                  = WantedPredicates
            /\ Len(read.predicates) = Cardinality(WantedPredicates)

-----------------------------------------------------------------------------
(* Change of a metric: the sentinel, the direction, the magnitude          *)

\* a change has been computed
ChangeComputed == pc = "done" /\ op \in {"metricsChange", "statsChange"}

\* the function the running call uses
ChangeOf(cur, prev) ==
    IF op = "metricsChange" THEN calculateChange(cur, prev)
    ELSE calculatePercentageChange(cur, prev)

\* the percentages changes from a previous value above zero produce
RealPercentages ==
    { ChangeOf(cur, prev).percentage :
        cur \in MetricValues, prev \in MetricValues \ {0} }

\* C21 as stated: with a previous value of exactly 0 and any current value
\* the change is the "not applicable" sentinel, a percentage no change from
\* a previous value above zero produces, with the neutral direction (null).
C21_SentinelOnZeroPrevious ==
    (ChangeComputed /\ previousVal = 0) =>
        /\ change.isIncreased = "null"
        /\ change.percentage \notin RealPercentages

\* C22: with a previous value above zero the direction is increased
\* exactly when current > previous, decreased exactly when current <
\* previous and null exactly when they are equal, and the percentage shown
\* is a number whose magnitude is |current - previous| / previous * 100
\* rounded to the decimals shown (within half a unit of the last decimal).
C22_DirectionAndMagnitude ==
    (ChangeComputed /\ previousVal > 0) =>
        LET pct == change.percentage
            unit == Pow10(pct.decimals)
            exact == Abs(currentVal - previousVal) * 100 * unit
        IN  /\ change.isIncreased = "true" <=> currentVal > previousVal
            /\ change.isIncreased = "false" <=> currentVal < previousVal
            /\ change.isIncreased = "null" <=> currentVal = previousVal
            /\ pct.kind = "number"
            /\ 2 * Abs(pct.scaled * previousVal - exact) <= previousVal
            /\ (currentVal = 150 /\ previousVal = 100) =>
                  pct.scaled = 50 * unit /\ change.isIncreased = "true"
            /\ (currentVal = 50 /\ previousVal = 100) =>
                  pct.scaled = 50 * unit /\ change.isIncreased = "false"

\* 50 against 100 on the card of calculateMetricsChange: 50%, decreased
C22_Witness ==
    /\ ChangeComputed
    /\ op = "metricsChange"
    /\ currentVal = 50
    /\ previousVal = 100
    /\ change = [percentage |-> PercentText(FALSE, 50, 0), isIncreased |-> "false"]

-----------------------------------------------------------------------------
(* Transport failures and the two requests of an aggregate call            *)

\* the calls that send one query and the calls that send two
OneQueryOps == {"direct", "loader", "allCounts", "countsSorted",
                "visitorCounts", "visitorBreakdown", "dashboard"}

TwoQueryOps == {"counts", "engagement"}

\* the call has handed back nothing
NothingResolved ==
    /\ sortedRows = <<>>
    /\ allCounts = EmptyCounts
    /\ result = <<>>
    /\ metrics = NoMetrics
    /\ sitesByHits = Pending

\* C23: a response that is not a success makes the call's promise reject
\* and never resolve with data; each query is sent in exactly one request;
\* in getCounts and getEngagementMetrics one failed request of the two
\* fails the whole call, with no result for either period.
C23_FailureRejectsWithoutData ==
    /\ op \in OneQueryOps =>
          /\ pc \in {"query", "done", "failed"} => requests = 1
          /\ responseOk = "false" => pc = "failed"
          /\ pc = "done" => responseOk = "true"
    /\ op \in TwoQueryOps =>
          /\ requests = 2
          /\ (Len(arrival) = 2 /\ pc # "fetch"
                 /\ (~responses.current.ok \/ ~responses.previous.ok)) =>
                pc = "failed"
    /\ pc = "failed" => NothingResolved

\* getCounts whose current query succeeded with a row and whose previous
\* query failed
C23_Witness ==
    /\ op = "counts"
    /\ pc = "failed"
    /\ responses.current.ok
    /\ responses.current.data # <<>>
    /\ ~responses.previous.ok

\* one period of the result as the response of that period gives it
PeriodOf(response) ==
    IF op = "counts" THEN CountsOf(response.data)
    ELSE EngagementOf(response.data)

\* C24: in getCounts and getEngagementMetrics both requests are sent
\* before either response is awaited and the result is built only when
\* both are there; whichever response arrives first, the current fields
\* come from the response to the current query and the previous fields
\* from the response to the previous query.
C24_ResultByQueryNotByArrival ==
    op \in TwoQueryOps =>
        /\ pc = "fetch" => (requests = 2 /\ metrics = NoMetrics)
        /\ pc = "done" =>
              /\ Len(arrival) = 2
              /\ metrics.current = PeriodOf(responses.current)
              /\ metrics.previous = PeriodOf(responses.previous)

\* the response to the previous query arrived first, and the two differ
C24_Witness ==
    /\ op \in TwoQueryOps
    /\ pc = "done"
    /\ arrival = <<"previous", "current">>
    /\ metrics.current # metrics.previous

\* the numbers of one period of a result
NumbersOf(period) ==
    IF op = "counts" THEN {period.views, period.visitors, period.visits}
    ELSE {period.bounceRate.num, period.duration}

\* C25 as stated: a successful response whose row has missing or
\* non-numeric fields, or that has no row, does not make getCounts or
\* getEngagementMetrics fail, and no NaN is handed to the caller: the
\* affected metrics are 0.
C25_MissingFieldsGiveZero ==
    (op \in TwoQueryOps /\ Len(arrival) = 2 /\ pc # "fetch"
        /\ responses.current.ok /\ responses.previous.ok) =>
        /\ pc = "done"
        /\ NaN \notin NumbersOf(metrics.current) \cup NumbersOf(metrics.previous)

\* the fields of a row are numbers with 0 <= bounce_visits <= total_visits
BouncesWithinVisits(row) ==
    /\ row.total_visits.kind = "number"
    /\ row.bounce_visits.kind = "number"
    /\ 0 <= row.bounce_visits.n
    /\ row.bounce_visits.n <= row.total_visits.n

\* C26: the bounce rate of either period is bounce_visits / total_visits *
\* 100, within 0..100, for every row with 0 <= bounce_visits <=
\* total_visits, and exactly 0 when total_visits is 0.
C26_BounceRateWithinRange ==
    (op = "engagement" /\ pc = "done") =>
        \A tag \in Tags :
            LET row == responses[tag].data[1]
                rate == metrics[tag].bounceRate
            IN  BouncesWithinVisits(row) =>
                    /\ rate.den > 0
                    /\ 0 <= rate.num
                    /\ rate.num <= 100 * rate.den
                    /\ rate.num * row.total_visits.n
                          = row.bounce_visits.n * 100 * rate.den
                    /\ row.total_visits.n = 0 => rate = ZeroRate

\* a period with bounces among its visits and a period with no visit
C26_Witness ==
    /\ op = "engagement"
    /\ pc = "done"
    /\ responses.current.data[1].total_visits = Num(10)
    /\ responses.current.data[1].bounce_visits = Num(4)
    /\ responses.previous.data[1].total_visits = Num(0)

-----------------------------------------------------------------------------
(* Dashboard route: the redirect and the handlers of the URL's parameters  *)

\* a site of the list that no site of the list has more hits than
MostHits(hits, site) ==
    \E i \in 1..Len(hits) :
        /\ hits[i][1] = site
        /\ \A j \in 1..Len(hits) : hits[j][2] <= hits[i][2]

\* the pairs of params whose name is not one of names, in their order
RECURSIVE Others(_, _)
Others(params, names) ==
    IF params = <<>> THEN <<>>
    ELSE (IF Head(params)[1] \in names THEN <<>> ELSE <<Head(params)>>)
             \o Others(Tail(params), names)

\* C27: at an address with no site parameter the loader answers with a
\* redirect to the same parameters plus site, the site with the most hits
\* or the empty string when there is none; the loader of the address
\* redirected to returns data, so a navigation has at most one redirect;
\* the loader returns data only for an address with a site parameter, and a
\* site of @unknown is reported as the empty site identifier.
C27_RedirectOnceToTopSite ==
    op = "dashboard" =>
        /\ pc = "redirect" =>
              /\ ~HasKey(url, "site")
              /\ redirects = 0
              /\ HasKey(redirectUrl, "site")
              /\ Others(redirectUrl, {"site"}) = url
              /\ IF sitesByHits.value = <<>>
                   THEN GetFirst(redirectUrl, "site") = ""
                   ELSE MostHits(sitesByHits.value, GetFirst(redirectUrl, "site"))
        /\ redirects <= 1
        /\ redirects = 1 => HasKey(url, "site")
        /\ pc = "done" =>
              /\ HasKey(url, "site")
              /\ loaderData.siteId =
                    (IF GetFirst(url, "site") = "@unknown" THEN ""
                     ELSE GetFirst(url, "site"))

\* the loader has returned data after a redirect to the site with the most
\* hits of two, at an address with other parameters
C27_Witness ==
    /\ op = "dashboard"
    /\ pc = "done"
    /\ redirects = 1
    /\ Len(url) = 3
    /\ loaderData.siteId = "docs"

\* C28: switchInterval, called with the loader's interval in intervalOrder,
\* sets the interval parameter to an element of intervalOrder at most one
\* position from it, towards the start for prev and towards the end for
\* next; prev at today and next at 90d set the same interval again; the
\* loader that follows returns an interval of the list; called with an
\* interval that is not in the list it leaves the parameters as they are.
C28_SwitchMovesOnePosition ==
    (op = "dashboard" /\ handler.name = "switchInterval") =>
        LET was == findIndex(handler.selected)
        IN  IF was = 0 THEN url = handler.prev
            ELSE /\ HasKey(url, "interval")
                 /\ LET now == findIndex(GetFirst(url, "interval"))
                    IN  /\ now # 0
                        /\ now - was \in {-1, 0, 1}
                        /\ handler.arg = "prev" => now <= was
                        /\ handler.arg = "next" => now >= was
                        /\ (handler.arg = "prev" /\ was = 1) => now = 1
                        /\ (handler.arg = "next" /\ was = Len(intervalOrder)) =>
                              now = Len(intervalOrder)
                 /\ pc = "done" => findIndex(loaderData.interval) # 0

\* the second of two calls of switchInterval("next") at 90d, and its loader
\* has returned
C28_Witness ==
    /\ op = "dashboard"
    /\ handler.name = "switchInterval"
    /\ handler.arg = "next"
    /\ handler.selected = "90d"
    /\ clicks = 2
    /\ pc = "done"

\* the names of the keys of an object
NamesOf(object) == { object[i][1] : i \in 1..Len(object) }

\* C29: changeInterval sets interval and leaves every other parameter as it
\* is; handleFilterChange sets the keys of its object and leaves the others;
\* handleFilterDelete removes the key it is given and leaves the others;
\* changeSite leaves exactly site and interval, with no filter.
C29_HandlersChangeOwnKeys ==
    op = "dashboard" =>
        /\ handler.name = "changeInterval" =>
              /\ HasKey(url, "interval")
              /\ GetFirst(url, "interval") = handler.arg
              /\ Others(url, {"interval"}) = Others(handler.prev, {"interval"})
        /\ handler.name = "handleFilterChange" =>
              /\ \A i \in 1..Len(handler.object) :
                    /\ HasKey(url, handler.object[i][1])
                    /\ GetFirst(url, handler.object[i][1]) = handler.object[i][2]
              /\ Others(url, NamesOf(handler.object))
                    = Others(handler.prev, NamesOf(handler.object))
        /\ handler.name = "handleFilterDelete" =>
              /\ ~HasKey(url, handler.arg)
              /\ Others(url, {handler.arg}) = Others(handler.prev, {handler.arg})
        /\ handler.name = "changeSite" =>
              /\ Len(url) = 2
              /\ { url[i] : i \in 1..Len(url) }
                    = { <<"site", handler.arg>>, <<"interval", handler.selected>> }

\* changeSite was called at an address with a filter
C29_Witness ==
    /\ op = "dashboard"
    /\ handler.name = "changeSite"
    /\ HasKey(handler.prev, "country")
    /\ handler.arg = "docs"

-----------------------------------------------------------------------------
(* PaginatedTableCard: hasMore                                             *)

\* the dataset holds rows beyond the page that was asked for
FurtherRows == Len(held) > page * limit

\* C30 as stated: hasMore is true exactly when the backend holds further
\* rows beyond the current page.
C30_HasMoreIffFurtherRows ==
    pc = "rendered" => (hasMore <=> FurtherRows)

====
